---- MODULE Spec2Model ----
(***************************************************************************)
(* A model of the audiobook-tagger core: the bounded-concurrency task      *)
(* queue and retry helper (core/utils/async), the metadata lookup path     *)
(* (core/metadata/processor, core/filesystem file processor), the event    *)
(* dispatcher (core/events/dispatcher), the directory scan and the         *)
(* grouping of files into books (file system service, file scanner), the   *)
(* match scores (metadata matcher) and the path sanitization               *)
(* (core/filesystem/organizer).                                            *)
(***************************************************************************)
EXTENDS Integers, Sequences, FiniteSets, TLC

(***************************************************************************)
(* Bounds of the model.                                                    *)
(***************************************************************************)
MaxTasks == 3
MaxConcurrency == 2

Tasks == 1..MaxTasks

\* The reasons clear() is called with: the defaults of createQueue.clear and
\* of FileProcessor.clearQueue.
Reasons == {"Queue cleared", "User requested"}

VARIABLES
    \* ---- createQueue(concurrency) ----
    concurrency,    \* the queue's concurrency argument
    queue,          \* the waiting tasks, head first
    running,        \* counter: tasks started and not yet finished
    completed,      \* counter: tasks finished successfully
    failed,         \* counter: tasks finished with an error
    phase,          \* per task: where it is in its life
    promise,        \* per task: the state of the promise add() returned
    microtasks,     \* the engine's promise job queue (FIFO)
    added,          \* number of add() calls so far (tasks are numbered in call order)
    startOrder,     \* history: the tasks in the order their fn was invoked
    cleared,        \* history: clear() has been called
    clearReason,    \* the reason argument of the last clear() call
    clearReturn,    \* the value the last clear() call returned
    runningAtClear, \* history: the tasks that were running at the last clear()
    wait            \* the waitForAll() call of FileProcessor.shutdown

\* ---- retry(fn, options) ----
VARIABLES
    rpc,            \* where retry() is: idle, call, delay, returned, threw
    rMaxRetries,    \* options.maxRetries
    rRetryable,     \* the errors for which options.shouldRetry returns true
    attempt,        \* the local attempt
    lastError,      \* the local lastError (NoError: undefined)
    rResult,        \* what retry() returned or threw
    callLog,        \* history: the outcome of every invocation of fn, in order
    delayMs         \* the delay computed before the pending retry

\* ---- FileProcessor.processDirectory / processBook, MetadataProcessor ----
VARIABLES
    hasClient,      \* apiClients.audnexus is configured
    cache,          \* MetadataProcessor.cache: the ASINs with cached metadata
    nBooks,         \* books.length
    curBook,        \* the book the for loop is at (0: before the first)
    bpc,            \* where processBook is: idle, lookup, extracted
    curAsin,        \* the ASIN found for the current book (NoAsin: none)
    lookupOutcome,  \* how lookupByAsin ended for the current book
    results,        \* processDirectory's results object
    batchPc,        \* where processDirectory is: idle, books, resolved, rejected
    scanResult,     \* history: how the scan and grouping phase ended
    processedCount, \* processDirectory's processedCount
    batchEvents     \* history: the BATCH_* events processDirectory emitted, in order

\* ---- EventDispatcher ----
VARIABLES
    handlers,             \* this.handlers: per event name, the array of entries
    lastEvents,           \* this.lastEvents: per event name, the last payload
    subscriptions,        \* this.subscriptions: id -> the subscription's event name
    subscriptionCounter,  \* this.subscriptionCounter
    timers,               \* the pending setTimeout(..., 0) replay callbacks (FIFO)
    made,                 \* history: the subscribe() calls so far, by id
    invoked,              \* history: every handler invocation, in order
    emits,                \* history: number of emit() calls so far
    emitReturn,           \* the value the last emit() call returned
    unsubReturn           \* the value the last unsubscribe() call returned

\* ---- FileSystemService.scanDirectory / FileScanner.scanDirectory ----
VARIABLES
    parentOf,        \* the directory tree: each directory's parent (0 for the root, 1)
    hasFile,         \* the directories that hold a qualifying audio file
    linkAt,          \* the directory that holds the symbolic link (0: there is none)
    linkTo,          \* the directory the link resolves to (0: a broken link)
    failing,         \* the directory fs.readdir throws for (0: none)
    rootKind,        \* what fs.stat finds at the root path: dir, notdir, missing
    maxDepth,        \* options.maxDepth
    followSymlinks,  \* options.followSymlinks
    spc,             \* FileScanner.scanDirectory: idle, resolved, rejected, diverged
    scanned,         \* the files scanDirectory resolved with (each named by its directory)
    listed,          \* history: the fs.readdir calls that succeeded, with their currentDepth
    scanEvents,      \* history: the SCAN_* events emitted, in order
    files,           \* groupFilesByBooks: the files argument
    gpc,             \* groupFilesByBooks: idle, done
    books            \* groupFilesByBooks: the books it returned

\* ---- calculateMatchScore, rankMetadataResults ----
VARIABLES
    fileInfo,        \* the fileInfo argument: what is known of the file
    metadataResults, \* the results argument: the metadata to rank
    mpc,             \* idle, scored (calculateMatchScore), ranked (rankMetadataResults)
    matchScore,      \* what calculateMatchScore(fileInfo, results[0]) returned
    ranked           \* what rankMetadataResults returned

\* ---- FileOrganizer._sanitizeFilePath ----
VARIABLES
    filePath,        \* the filePath argument
    opc,             \* idle, once (sanitized), twice (the result sanitized again)
    sanitized,       \* what _sanitizeFilePath(filePath) returned
    sanitizedAgain   \* what _sanitizeFilePath(sanitized) returned

qvars == <<concurrency, queue, running, completed, failed, phase, promise,
           microtasks, added, startOrder, cleared, clearReason, clearReturn, runningAtClear, wait>>

rvars == <<rpc, rMaxRetries, rRetryable, attempt, lastError, rResult, callLog, delayMs>>

lvars == <<hasClient, cache, nBooks, curBook, bpc, curAsin, lookupOutcome, results,
           batchPc, scanResult, processedCount, batchEvents>>

\* What the queue's operations leave alone.
evars == <<handlers, lastEvents, subscriptions, subscriptionCounter, timers,
           made, invoked, emits, emitReturn, unsubReturn>>

svars == <<parentOf, hasFile, linkAt, linkTo, failing, rootKind, maxDepth, followSymlinks,
           spc, scanned, listed, scanEvents, files, gpc, books>>

mvars == <<fileInfo, metadataResults, mpc, matchScore, ranked>>

ovars == <<filePath, opc, sanitized, sanitizedAgain>>

notQueue == <<rvars, lvars, evars, svars, mvars, ovars>>

vars == <<qvars, rvars, lvars, evars, svars, mvars, ovars>>

(***************************************************************************)
(* Bounds and values of the retry and lookup model                         *)
(***************************************************************************)
MaxRetriesBound == 3
MaxBooks == 2

\* Outcomes of one provider call: HTTP 200, or an ApiError with this
\* statusCode (404 not found, 500 server error, 0 no response).
Ok == 200
NotFound == 404
ErrorCodes == {404, 500, 0}
Transient == {500, 0}
Outcomes == {Ok} \cup ErrorCodes
NoError == -1

\* Math.floor of the jitter Math.random() * 100 adds: its extremes.
Jitters == {0, 99}

Asins == {"B000000001", "B000000002"}
NoAsin == "none"

\* retry's option defaults, and the options lookupByAsin passes.
DefaultInitialDelay == 1000
DefaultMaxDelay == 10000
LookupMaxRetries == 2

(***************************************************************************)
(* retry(fn, options)                                                      *)
(***************************************************************************)
RECURSIVE Pow2(_)
Pow2(k) == IF k <= 0 THEN 1 ELSE 2 * Pow2(k - 1)

Min(a, b) == IF a <= b THEN a ELSE b

\* Math.min(initialDelay * Math.pow(2, attempt - 1), maxDelay)
backoffDelay(att) == Min(DefaultInitialDelay * Pow2(att - 1), DefaultMaxDelay)

\* The break test after a failed attempt (att is already incremented).
stopRetrying_IgnoresShouldRetry(att, maxRetries, retryable, error) ==
    att > maxRetries

stopRetrying(att, maxRetries, retryable, error) ==
    att > maxRetries \/ ~(error \in retryable)

RetryIdle ==
    /\ rpc = "idle"
    /\ rMaxRetries = 0
    /\ rRetryable = {}
    /\ attempt = 0
    /\ lastError = NoError
    /\ rResult = NoError
    /\ callLog = <<>>
    /\ delayMs = 0

\* The state retry(fn, {maxRetries, shouldRetry}) begins in.
retryBegin(maxRetries, retryable) ==
    /\ rpc' = "call"
    /\ rMaxRetries' = maxRetries
    /\ rRetryable' = retryable
    /\ attempt' = 0
    /\ lastError' = NoError
    /\ rResult' = NoError
    /\ callLog' = <<>>
    /\ delayMs' = 0

\* The call of retry() is over and its locals are gone.
retryGone ==
    /\ rpc' = "idle"
    /\ rMaxRetries' = 0
    /\ rRetryable' = {}
    /\ attempt' = 0
    /\ lastError' = NoError
    /\ rResult' = NoError
    /\ callLog' = <<>>
    /\ delayMs' = 0

\* retry(fn, {maxRetries, shouldRetry}) is called.
RetryStart(maxRetries, retryable) ==
    /\ rpc = "idle"
    /\ bpc = "idle"
    /\ retryBegin(maxRetries, retryable)
    /\ UNCHANGED <<qvars, lvars, evars, svars, mvars, ovars>>

\* One pass of the while loop: fn(attempt) is invoked and settles with
\* outcome; on an error the catch block decides between break and delay.
RetryInvoke(outcome, jitter) ==
    /\ rpc = "call"
    /\ attempt < rMaxRetries + 1
    /\ callLog' = Append(callLog, outcome)
    /\ IF outcome = Ok
       THEN /\ rpc' = "returned"
            /\ rResult' = Ok
            /\ UNCHANGED <<attempt, lastError, delayMs>>
       ELSE /\ lastError' = outcome
            /\ attempt' = attempt + 1
            /\ IF stopRetrying(attempt + 1, rMaxRetries, rRetryable, outcome)
               THEN /\ rpc' = "threw"
                    /\ rResult' = outcome
                    /\ UNCHANGED delayMs
               ELSE /\ rpc' = "delay"
                    /\ delayMs' = backoffDelay(attempt + 1) + jitter
                    /\ UNCHANGED rResult
    /\ UNCHANGED <<rMaxRetries, rRetryable>>
    /\ UNCHANGED <<qvars, lvars, evars, svars, mvars, ovars>>

\* await delay(delayMs) ends, and with it the catch block delayMs is a
\* constant of.
RetryWake ==
    /\ rpc = "delay"
    /\ rpc' = "call"
    /\ delayMs' = 0
    /\ UNCHANGED <<rMaxRetries, rRetryable, attempt, lastError, rResult, callLog>>
    /\ UNCHANGED <<qvars, lvars, evars, svars, mvars, ovars>>

(***************************************************************************)
(* MetadataProcessor.lookupByAsin / extractMetadataFromFile and            *)
(* FileProcessor.processBook / processDirectory                            *)
(***************************************************************************)
LookupIdle ==
    /\ hasClient = TRUE
    /\ cache = {}
    /\ nBooks = 0
    /\ curBook = 0
    /\ bpc = "idle"
    /\ curAsin = NoAsin
    /\ lookupOutcome = "none"
    /\ results = [processed |-> 0, failed |-> 0, skipped |-> 0, books |-> <<>>]
    /\ batchPc = "idle"
    /\ scanResult = "none"
    /\ processedCount = 0
    /\ batchEvents = <<>>

\* processDirectory has scanned and grouped n books.
LookupInit ==
    /\ hasClient \in BOOLEAN
    /\ cache = {}
    /\ nBooks \in 0..MaxBooks
    /\ curBook = 0
    /\ bpc = "idle"
    /\ curAsin = NoAsin
    /\ lookupOutcome = "none"
    /\ results = [processed |-> 0, failed |-> 0, skipped |-> 0, books |-> <<>>]
    /\ batchPc = "books"
    /\ scanResult = "ok"
    /\ processedCount = 0
    /\ batchEvents = <<>>

\* extractMetadataFromFile: existingTags.asin, else extractAsinFromFilename.
foundAsin(tagAsin, fileAsin) == IF tagAsin # NoAsin THEN tagAsin ELSE fileAsin

\* lookupByAsin's catch block: the error it throws for the error it caught.
lookupThrows(error) == IF error = NotFound THEN "MetadataNotFoundError" ELSE "rethrown"

\* extractMetadataFromFile: the metadata lookupByAsin returned, or null when
\* there was no ASIN or lookupByAsin threw (TRUE: metadata, FALSE: null).
apiMetadataOf(outcome) == outcome \in {"cached", "metadata"}

\* processBook: status: apiMetadata ? 'processed' : 'metadata_only'
bookStatus_FailedOnNull(apiMetadata) == IF apiMetadata THEN "processed" ELSE "failed"

bookStatus(apiMetadata) == IF apiMetadata THEN "processed" ELSE "metadata_only"

\* processDirectory: the counters after a book result of this status.
counted(res, st) ==
    IF st = "processed" THEN [res EXCEPT !.processed = @ + 1]
    ELSE IF st = "failed" THEN [res EXCEPT !.failed = @ + 1]
    ELSE IF st = "skipped" THEN [res EXCEPT !.skipped = @ + 1]
    ELSE res

\* processDirectory: results.books.push(entry)
pushResult_DropsFailed(res, entry) ==
    IF entry.status = "failed" THEN res ELSE [res EXCEPT !.books = Append(@, entry)]

pushResult(res, entry) == [res EXCEPT !.books = Append(@, entry)]

\* processDirectory: whether the scan and grouping phase threw.
batchFails_Never(outcome) == FALSE

batchFails(outcome) == outcome # "ok"

\* processDirectory: the BATCH_PROGRESS payload after a book.
progressEvent(done, total, res) ==
    [type |-> "BATCH_PROGRESS", processed |-> done, failed |-> res.failed,
     skipped |-> res.skipped, total |-> total]

\* The next iteration of processDirectory's loop: processBook reads the
\* tags, extractMetadataFromFile finds the ASIN, lookupByAsin looks in the
\* cache and otherwise calls retry(() => audnexus.getBookByAsin(asin)).
BookStart(tagAsin, fileAsin) ==
    /\ batchPc = "books"
    /\ bpc = "idle"
    /\ rpc = "idle"
    /\ curBook < nBooks
    /\ curBook' = curBook + 1
    /\ curAsin' = foundAsin(tagAsin, fileAsin)
    /\ IF curAsin' = NoAsin
       THEN /\ bpc' = "extracted"
            /\ lookupOutcome' = "none"
            /\ UNCHANGED rvars
       ELSE IF curAsin' \in cache
       THEN /\ bpc' = "extracted"
            /\ lookupOutcome' = "cached"
            /\ UNCHANGED rvars
       ELSE IF ~hasClient
       THEN /\ bpc' = "extracted"
            /\ lookupOutcome' = "rethrown"
            /\ UNCHANGED rvars
       ELSE /\ bpc' = "lookup"
            /\ lookupOutcome' = "none"
            /\ retryBegin(LookupMaxRetries, ErrorCodes)
    /\ UNCHANGED <<hasClient, cache, nBooks, results>>
    /\ UNCHANGED <<batchPc, scanResult, processedCount, batchEvents>>
    /\ UNCHANGED <<qvars, evars, svars, mvars, ovars>>

\* retry() has ended inside lookupByAsin: the metadata is cached and
\* returned, or the catch block throws.
LookupSettle ==
    /\ bpc = "lookup"
    /\ rpc \in {"returned", "threw"}
    /\ IF rpc = "returned"
       THEN /\ cache' = cache \cup {curAsin}
            /\ lookupOutcome' = "metadata"
       ELSE /\ lookupOutcome' = lookupThrows(rResult)
            /\ UNCHANGED cache
    /\ bpc' = "extracted"
    /\ UNCHANGED rvars
    /\ UNCHANGED <<hasClient, nBooks, curBook, curAsin, results>>
    /\ UNCHANGED <<batchPc, scanResult, processedCount, batchEvents>>
    /\ UNCHANGED <<qvars, evars, svars, mvars, ovars>>

\* extractMetadataFromFile returns, processBook builds its result and
\* processDirectory pushes and counts it.  The fields lookup and calls of a
\* book entry are history: how the lookup ended and the provider calls made.
BookFinish ==
    /\ bpc = "extracted"
    /\ LET st == bookStatus(apiMetadataOf(lookupOutcome))
           entry == [book |-> curBook, status |-> st, error |-> "none",
                     lookup |-> lookupOutcome, calls |-> callLog]
       IN  /\ results' = counted(pushResult(results, entry), st)
           /\ processedCount' = processedCount + 1
           /\ batchEvents' = Append(batchEvents, progressEvent(processedCount', nBooks, results'))
    /\ bpc' = "idle"
    /\ curAsin' = NoAsin
    /\ lookupOutcome' = "none"
    /\ retryGone
    /\ UNCHANGED <<hasClient, cache, nBooks, curBook, batchPc, scanResult>>
    /\ UNCHANGED <<qvars, evars, svars, mvars, ovars>>

\* How a book can fail outside the lookup: an exception inside processBook's
\* try block, which processBook turns into a 'failed' result, or an exception
\* that leaves processBook, which processDirectory's own catch handles.
BookFailures == {"caught", "thrown"}

\* One iteration of processDirectory's loop for a book that fails before
\* any lookup is made.
BookFails(how) ==
    /\ batchPc = "books"
    /\ bpc = "idle"
    /\ rpc = "idle"
    /\ curBook < nBooks
    /\ curBook' = curBook + 1
    /\ LET entry == [book |-> curBook', status |-> "failed", error |-> "message",
                     lookup |-> "none", calls |-> <<>>]
           pushed == pushResult(results, entry)
       IN  IF how = "caught"
           THEN /\ results' = counted(pushed, "failed")
                /\ processedCount' = processedCount + 1
                /\ batchEvents' = Append(batchEvents, progressEvent(processedCount', nBooks, results'))
           ELSE /\ results' = [pushed EXCEPT !.failed = @ + 1]
                /\ UNCHANGED <<processedCount, batchEvents>>
    /\ UNCHANGED <<hasClient, cache, nBooks, bpc, curAsin, lookupOutcome, batchPc, scanResult>>
    /\ UNCHANGED <<qvars, rvars, evars, svars, mvars, ovars>>

\* How the scan and grouping phase of processDirectory can end.
ScanResults == {"ok", "scanFailed", "groupFailed"}

\* processDirectory(dirPath) up to its loop: scanDirectory and
\* groupFilesByBooks give n books, or one of them throws and the outer catch
\* emits BATCH_FAILED and rethrows.
ProcessDirectory(outcome, n) ==
    /\ batchPc = "idle"
    /\ scanResult' = outcome
    /\ IF ~batchFails(outcome)
       THEN /\ nBooks' = n
            /\ batchPc' = "books"
            /\ UNCHANGED batchEvents
       ELSE /\ batchEvents' = Append(batchEvents, [type |-> "BATCH_FAILED", processed |-> 0,
                                                   failed |-> 0, skipped |-> 0, total |-> 0])
            /\ batchPc' = "rejected"
            /\ UNCHANGED nBooks
    /\ results' = [processed |-> 0, failed |-> 0, skipped |-> 0, books |-> <<>>]
    /\ processedCount' = 0
    /\ UNCHANGED <<hasClient, cache, curBook, bpc, curAsin, lookupOutcome>>
    /\ UNCHANGED <<qvars, rvars, evars, svars, mvars, ovars>>

\* processDirectory after its loop: BATCH_COMPLETED is emitted and the
\* results are returned.
BatchEnd ==
    /\ batchPc = "books"
    /\ bpc = "idle"
    /\ curBook = nBooks
    /\ batchEvents' = Append(batchEvents, [type |-> "BATCH_COMPLETED", processed |-> results.processed,
                                           failed |-> results.failed, skipped |-> results.skipped,
                                           total |-> nBooks])
    /\ batchPc' = "resolved"
    /\ UNCHANGED <<hasClient, cache, nBooks, curBook, bpc, curAsin, lookupOutcome, results,
                   scanResult, processedCount>>
    /\ UNCHANGED <<qvars, rvars, evars, svars, mvars, ovars>>

(***************************************************************************)
(* createQueue: processNext                                                *)
(***************************************************************************)
\* processNext() on a queue q with r tasks running and limit n: the queue and
\* the counter afterwards, and the task it started (0: none).
processNext_NoLimit(q, r, n) ==
    IF Len(q) = 0
    THEN [q |-> q, r |-> r, t |-> 0]
    ELSE [q |-> Tail(q), r |-> r + 1, t |-> Head(q)]

processNext_Lifo(q, r, n) ==
    IF Len(q) = 0 \/ r >= n
    THEN [q |-> q, r |-> r, t |-> 0]
    ELSE [q |-> SubSeq(q, 1, Len(q) - 1), r |-> r + 1, t |-> q[Len(q)]]

processNext_OffByOne(q, r, n) ==
    IF Len(q) = 0 \/ r >= n - 1
    THEN [q |-> q, r |-> r, t |-> 0]
    ELSE [q |-> Tail(q), r |-> r + 1, t |-> Head(q)]

processNext(q, r, n) ==
    IF Len(q) = 0 \/ r >= n
    THEN [q |-> q, r |-> r, t |-> 0]
    ELSE [q |-> Tail(q), r |-> r + 1, t |-> Head(q)]

\* The promise job processNext schedules for the task it started:
\* Promise.resolve().then(() => fn()).
scheduled(mt, t) == IF t = 0 THEN mt ELSE Append(mt, <<"call", t>>)

started(ph, t) == IF t = 0 THEN ph ELSE [ph EXCEPT ![t] = "started"]

\* The success and error handlers of processNext: counters, then processNext().
onSettled_NoNextOnError(q, r, c, f, n, ok) ==
    LET nx == IF ok THEN processNext(q, r - 1, n) ELSE [q |-> q, r |-> r - 1, t |-> 0]
    IN  [q |-> nx.q, r |-> nx.r, t |-> nx.t,
         c |-> IF ok THEN c + 1 ELSE c,
         f |-> IF ok THEN f ELSE f + 1]

onSettled(q, r, c, f, n, ok) ==
    LET nx == processNext(q, r - 1, n)
    IN  [q |-> nx.q, r |-> nx.r, t |-> nx.t,
         c |-> IF ok THEN c + 1 ELSE c,
         f |-> IF ok THEN f ELSE f + 1]

\* The phases of a task that processNext started and whose handler has not run.
InFlightPhases == {"started", "executing", "settled_ok", "settled_err"}

\* resolve()/reject() of a promise: only a pending promise changes.
settle(p, v) == IF p = "pending" THEN v ELSE p

\* status()
status == [queued |-> Len(queue), running |-> running,
           completed |-> completed, failed |-> failed,
           total |-> Len(queue) + running + completed + failed]

(***************************************************************************)
(* createQueue: the operations                                             *)
(***************************************************************************)
QueueInit ==
    /\ concurrency \in 1..MaxConcurrency
    /\ queue = <<>>
    /\ running = 0
    /\ completed = 0
    /\ failed = 0
    /\ phase = [t \in Tasks |-> "none"]
    /\ promise = [t \in Tasks |-> "none"]
    /\ microtasks = <<>>
    /\ added = 0
    /\ startOrder = <<>>
    /\ cleared = FALSE
    /\ clearReason = "none"
    /\ clearReturn = 0
    /\ runningAtClear = {}
    /\ wait = "none"

\* add(fn): push the task, then processNext().
Add ==
    /\ added < MaxTasks
    /\ LET t  == added + 1
           nx == processNext(Append(queue, t), running, concurrency)
       IN  /\ added' = t
           /\ queue' = nx.q
           /\ running' = nx.r
           /\ microtasks' = scheduled(microtasks, nx.t)
           /\ phase' = started([phase EXCEPT ![t] = "queued"], nx.t)
           /\ promise' = [promise EXCEPT ![t] = "pending"]
    /\ UNCHANGED <<concurrency, completed, failed, startOrder, cleared,
                   clearReason, clearReturn, runningAtClear, wait>>
    /\ UNCHANGED notQueue

\* The job () => fn() runs: the task's operation begins.
InvokeFn ==
    /\ Len(microtasks) > 0
    /\ Head(microtasks)[1] = "call"
    /\ LET t == Head(microtasks)[2]
       IN  /\ phase' = [phase EXCEPT ![t] = "executing"]
           /\ startOrder' = Append(startOrder, t)
    /\ microtasks' = Tail(microtasks)
    /\ UNCHANGED <<concurrency, queue, running, completed, failed, promise,
                   added, cleared, clearReason, clearReturn, runningAtClear, wait>>
    /\ UNCHANGED notQueue

\* The operation of task t settles (fulfils, rejects or threw): the handler
\* job of its .then(success, error) is queued.
Settle(t, ok) ==
    /\ phase[t] = "executing"
    /\ phase' = [phase EXCEPT ![t] = IF ok THEN "settled_ok" ELSE "settled_err"]
    /\ microtasks' = Append(microtasks, <<"done", t>>)
    /\ UNCHANGED <<concurrency, queue, running, completed, failed, promise,
                   added, startOrder, cleared, clearReason, clearReturn, runningAtClear, wait>>
    /\ UNCHANGED notQueue

\* The success or error handler runs.
Finish ==
    /\ Len(microtasks) > 0
    /\ Head(microtasks)[1] = "done"
    /\ LET t  == Head(microtasks)[2]
           ok == phase[t] = "settled_ok"
           nx == onSettled(queue, running, completed, failed, concurrency, ok)
       IN  /\ queue' = nx.q
           /\ running' = nx.r
           /\ completed' = nx.c
           /\ failed' = nx.f
           /\ promise' = [promise EXCEPT
                            ![t] = settle(@, IF ok THEN "value" ELSE "error")]
           /\ phase' = started([phase EXCEPT
                            ![t] = IF ok THEN "completed" ELSE "failed"], nx.t)
           /\ microtasks' = scheduled(Tail(microtasks), nx.t)
    /\ UNCHANGED <<concurrency, added, startOrder, cleared, clearReason,
                   clearReturn, runningAtClear, wait>>
    /\ UNCHANGED notQueue

\* clear(reason): the tasks it takes out of the queue (currentQueue) and the
\* queue it leaves (queue.length = 0).
clearQueue_KeepsQueue(q) == [removed |-> q, left |-> q]

clearQueue(q) == [removed |-> q, left |-> <<>>]

\* clear(reason)
Clear(reason) ==
    /\ cleared' = TRUE
    /\ clearReason' = reason
    /\ runningAtClear' = {t \in Tasks : phase[t] \in InFlightPhases}
    /\ LET cq == clearQueue(queue)
           isRemoved(t) == \E i \in 1..Len(cq.removed) : cq.removed[i] = t
       IN  /\ queue' = cq.left
           /\ promise' = [t \in Tasks |->
                            IF isRemoved(t) THEN settle(promise[t], reason)
                            ELSE promise[t]]
           /\ phase' = [t \in Tasks |->
                            IF isRemoved(t) /\ ~(\E i \in 1..Len(cq.left) : cq.left[i] = t)
                            THEN "cancelled" ELSE phase[t]]
           /\ clearReturn' = Len(cq.removed)
    /\ UNCHANGED <<concurrency, running, completed, failed, microtasks, added,
                   startOrder, wait>>
    /\ UNCHANGED notQueue

\* waitForAll(): the test both the call and the interval callback make.
allDone_QueueEmpty(r, q) == Len(q) = 0


allDone(r, q) == r = 0

\* waitForAll() is called (FileProcessor.shutdown).
WaitForAll ==
    /\ wait = "none"
    /\ wait' = IF allDone(running, queue) THEN "resolved_at_call" ELSE "polling"
    /\ UNCHANGED <<concurrency, queue, running, completed, failed, phase,
                   promise, microtasks, added, startOrder, cleared,
                   clearReason, clearReturn, runningAtClear>>
    /\ UNCHANGED notQueue

\* The setInterval callback fires (a timer runs only once the job queue is
\* empty); it resolves and clears the interval when nothing is running.
Tick ==
    /\ wait = "polling"
    /\ microtasks = <<>>
    /\ allDone(running, queue)
    /\ wait' = "resolved_by_timer"
    /\ UNCHANGED <<concurrency, queue, running, completed, failed, phase,
                   promise, microtasks, added, startOrder, cleared,
                   clearReason, clearReturn, runningAtClear>>
    /\ UNCHANGED notQueue

(***************************************************************************)
(* EventDispatcher                                                         *)
(***************************************************************************)
MaxSubs == 2
MaxEmits == 2

EventNames == {"scan", "batch"}
Payloads == {"p1", "p2"}
NoEvent == "none"

\* What a handler does when it is called.
Behaviours == {"returns", "throws"}

\* Handlers that call the dispatcher and return: unsubscribe(target), target
\* their own or another subscription id, or subscribe to the event they are
\* called for.
ReentrantBehaviours == {"unsubscribes", "subscribes"}
NoTarget == 0

SubIds == 1..MaxSubs

\* constructor
EventInit ==
    /\ handlers = [n \in EventNames |-> <<>>]
    /\ lastEvents = [n \in EventNames |-> NoEvent]
    /\ subscriptions = [i \in {} |-> "none"]
    /\ subscriptionCounter = 0
    /\ timers = <<>>
    /\ made = <<>>
    /\ invoked = <<>>
    /\ emits = 0
    /\ emitReturn = 0
    /\ unsubReturn = FALSE

\* The dispatcher's maps as one value, for the operations that call
\* each other: h handlers, s subscriptions, c subscriptionCounter, l
\* lastEvents, log the invocations, m the subscribe calls.
Dispatcher == [h |-> handlers, s |-> subscriptions, c |-> subscriptionCounter,
               l |-> lastEvents, log |-> invoked, m |-> made]

\* this.handlers.has(name): an event name has a key while its array has entries.
hasHandlers(d, name) == Len(d.h[name]) > 0

RemoveAt(seq, i) == SubSeq(seq, 1, i - 1) \o SubSeq(seq, i + 1, Len(seq))

\* eventHandlers.findIndex(h => h.subscriptionId === id): 0 for -1.
findIndex(arr, id) ==
    IF \E i \in 1..Len(arr) : arr[i].id = id
    THEN CHOOSE i \in 1..Len(arr) : arr[i].id = id /\ \A j \in 1..(i - 1) : arr[j].id # id
    ELSE 0

\* unsubscribe(id) on dispatcher d: the dispatcher afterwards and the value returned.
unsubscribe(d, id) ==
    IF ~(id \in DOMAIN d.s) THEN [d |-> d, ret |-> FALSE]
    ELSE LET name == d.s[id]
             index == findIndex(d.h[name], id)
         IN  IF ~hasHandlers(d, name) THEN [d |-> d, ret |-> FALSE]
             ELSE IF index # 0
             THEN [d |-> [d EXCEPT !.h[name] = RemoveAt(@, index),
                                   !.s = [i \in (DOMAIN d.s) \ {id} |-> d.s[i]]],
                   ret |-> TRUE]
             ELSE [d |-> d, ret |-> FALSE]

\* handlersToRemove.forEach(id => this.unsubscribe(id))
RECURSIVE unsubscribeAll(_, _)
unsubscribeAll(d, ids) ==
    IF ids = <<>> THEN d ELSE unsubscribeAll(unsubscribe(d, Head(ids)).d, Tail(ids))

\* emit's try block for one entry: whether the entry is marked for removal.
markedForRemoval(entry) == entry.once /\ entry.beh # "throws"

\* subscribe(name, handler) called by a handler, on dispatcher d: the new
\* handler returns, without once or immediate (no call when the model has
\* no subscription id left).
subscribe(d, name) ==
    IF d.c >= MaxSubs THEN d
    ELSE LET id == d.c + 1
         IN  [d EXCEPT !.c = id,
                       !.h[name] = Append(@, [id |-> id, once |-> FALSE, beh |-> "returns",
                                              target |-> NoTarget]),
                       !.s = [i \in (DOMAIN d.s) \cup {id} |-> IF i = id THEN name ELSE d.s[i]],
                       !.m = Append(@, [name |-> name, beh |-> "returns", once |-> FALSE,
                                        immediate |-> FALSE, last |-> d.l[name]])]

\* handler(data): what the call of the handler of an entry does to the
\* dispatcher.
handlerCall(d, name, entry, data, via) ==
    LET d1 == [d EXCEPT !.log = Append(@, [id |-> entry.id, data |-> data, via |-> via])]
    IN  IF entry.beh = "unsubscribes" THEN unsubscribe(d1, entry.target).d
        ELSE IF entry.beh = "subscribes" THEN subscribe(d1, name)
        ELSE d1

\* emit's eventHandlers.forEach from index i on, n the length of the array
\* when forEach was called: the handler at every index below n that the
\* array still has is called with data; a once entry whose handler returned
\* is pushed on handlersToRemove.  (An array emptied by unsubscribe is taken
\* out of the map and stays empty.)
RECURSIVE emitLoop(_, _, _, _, _, _)
emitLoop(d, name, data, i, n, toRemove) ==
    IF i > n \/ i > Len(d.h[name]) THEN [d |-> d, rm |-> toRemove]
    ELSE LET entry == d.h[name][i]
         IN  emitLoop(handlerCall(d, name, entry, data, "emit"), name, data, i + 1, n,
                      IF markedForRemoval(entry) THEN Append(toRemove, entry.id) ELSE toRemove)

\* subscribe: whether the last payload is replayed to the new handler.
shouldReplay_Always(immediate, last) == immediate

shouldReplay(immediate, last) == immediate /\ last # NoEvent

\* subscribe(name, handler, {once, immediate}), the handler one that calls
\* unsubscribe(target) when beh says so
SubscribeHandler(name, beh, target, once, immediate) ==
    /\ subscriptionCounter < MaxSubs
    /\ LET id == subscriptionCounter + 1
       IN  /\ subscriptionCounter' = id
           /\ handlers' = [handlers EXCEPT ![name] = Append(@, [id |-> id, once |-> once, beh |-> beh,
                                                                target |-> target])]
           /\ subscriptions' = [i \in (DOMAIN subscriptions) \cup {id} |->
                                   IF i = id THEN name ELSE subscriptions[i]]
           /\ timers' = IF shouldReplay(immediate, lastEvents[name])
                        THEN Append(timers, [id |-> id, name |-> name, beh |-> beh,
                                             target |-> target,
                                             once |-> once, data |-> lastEvents[name]])
                        ELSE timers
    /\ made' = Append(made, [name |-> name, beh |-> beh, once |-> once, immediate |-> immediate,
                             last |-> lastEvents[name]])
    /\ UNCHANGED <<lastEvents, invoked, emits, emitReturn, unsubReturn>>
    /\ UNCHANGED <<qvars, rvars, lvars, svars, mvars, ovars>>

\* subscribe(name, handler, {once, immediate}), the handler one that does not
\* call the dispatcher
Subscribe(name, beh, once, immediate) == SubscribeHandler(name, beh, NoTarget, once, immediate)

\* subscribe(name, handler, {once}), the handler one that calls the
\* dispatcher
SubscribeReentrant(name, beh, target, once) == SubscribeHandler(name, beh, target, once, FALSE)

\* unsubscribe(subscriptionId), called from outside
Unsubscribe(id) ==
    /\ LET u == unsubscribe(Dispatcher, id)
       IN  /\ handlers' = u.d.h
           /\ subscriptions' = u.d.s
           /\ unsubReturn' = u.ret
    /\ UNCHANGED <<lastEvents, subscriptionCounter, timers, made, invoked, emits, emitReturn>>
    /\ UNCHANGED <<qvars, rvars, lvars, svars, mvars, ovars>>

\* emit(name, data)
Emit(name, data) ==
    /\ emits < MaxEmits
    /\ emits' = emits + 1
    /\ lastEvents' = [lastEvents EXCEPT ![name] = data]
    /\ IF ~hasHandlers(Dispatcher, name)
       THEN /\ emitReturn' = 0
            /\ UNCHANGED <<handlers, subscriptions, subscriptionCounter, made, invoked>>
       ELSE LET handlerCount == Len(handlers[name])
                looped == emitLoop([Dispatcher EXCEPT !.l[name] = data], name, data, 1,
                                   handlerCount, <<>>)
                after == unsubscribeAll(looped.d, looped.rm)
            IN  /\ handlers' = after.h
                /\ subscriptions' = after.s
                /\ subscriptionCounter' = after.c
                /\ made' = after.m
                /\ invoked' = after.log
                /\ emitReturn' = handlerCount
    /\ UNCHANGED <<timers, unsubReturn>>
    /\ UNCHANGED <<qvars, rvars, lvars, svars, mvars, ovars>>

\* The setTimeout callback of subscribe(..., {immediate: true}) fires: the
\* handler is called with the payload captured at subscribe; a once
\* subscription whose handler returned is unsubscribed.
ReplayFires ==
    /\ Len(timers) > 0
    /\ LET t == Head(timers)
           d1 == handlerCall(Dispatcher, t.name, t, t.data, "replay")
           after == IF t.beh # "throws" /\ t.once THEN unsubscribe(d1, t.id).d ELSE d1
       IN  /\ handlers' = after.h
           /\ subscriptions' = after.s
           /\ subscriptionCounter' = after.c
           /\ made' = after.m
           /\ invoked' = after.log
    /\ timers' = Tail(timers)
    /\ UNCHANGED <<lastEvents, emits, emitReturn, unsubReturn>>
    /\ UNCHANGED <<qvars, rvars, lvars, svars, mvars, ovars>>

EventNext ==
    \/ \E name \in EventNames, beh \in Behaviours, once \in BOOLEAN, immediate \in BOOLEAN :
          Subscribe(name, beh, once, immediate)
    \/ \E id \in SubIds : Unsubscribe(id)
    \/ \E name \in EventNames, data \in Payloads : Emit(name, data)
    \/ ReplayFires

(***************************************************************************)
(* FileSystemService.scanDirectory, _scanDirectoryRecursive and            *)
(* FileScanner.scanDirectory                                               *)
(***************************************************************************)
MaxDirs == 3
MaxDepthOption == 2

\* this.defaultScanOptions.maxDepth when the configuration gives none
DefaultMaxDepth == 5

Dirs == 1..MaxDirs
Root == 1
NoDir == 0
RootKinds == {"dir", "notdir", "missing"}

\* No acyclic traversal calls _scanDirectoryRecursive deeper than this: a
\* call beyond it belongs to a recursion that does not end.
CallCap == 2 * MaxDirs + 1

\* No scan is going on: a root without files.
ScanIdle ==
    /\ parentOf = [d \in Dirs |-> IF d = Root THEN NoDir ELSE Root]
    /\ hasFile = {}
    /\ linkAt = NoDir
    /\ linkTo = NoDir
    /\ failing = NoDir
    /\ rootKind = "dir"
    /\ maxDepth = DefaultMaxDepth
    /\ followSymlinks = TRUE
    /\ spc = "idle"
    /\ scanned = <<>>
    /\ listed = <<>>
    /\ scanEvents = <<>>
    /\ files = <<>>
    /\ gpc = "idle"
    /\ books = <<>>

\* A directory tree with at most one symbolic link and at most one
\* directory that cannot be listed, and the options of the scan.
ScanInit ==
    /\ parentOf \in {f \in [Dirs -> {NoDir} \cup Dirs] :
                       /\ f[Root] = NoDir
                       /\ \A d \in Dirs \ {Root} : f[d] \in 1..(d - 1)}
    /\ hasFile \in SUBSET Dirs
    /\ linkAt \in {NoDir} \cup Dirs
    /\ linkTo \in IF linkAt = NoDir THEN {NoDir} ELSE {NoDir} \cup Dirs
    /\ failing \in {NoDir} \cup Dirs
    /\ rootKind \in RootKinds
    /\ maxDepth \in 0..MaxDepthOption
    /\ followSymlinks \in BOOLEAN
    /\ spc = "idle"
    /\ scanned = <<>>
    /\ listed = <<>>
    /\ scanEvents = <<>>
    /\ files = <<>>
    /\ gpc = "idle"
    /\ books = <<>>

\* The nesting level of a directory, the root being level 1.
RECURSIVE Level(_)
Level(d) == IF d = Root THEN 1 ELSE 1 + Level(parentOf[d])

\* Directory d lies in the subtree of directory a.
RECURSIVE Under(_, _)
Under(d, a) == IF d = a THEN TRUE ELSE IF d = Root THEN FALSE ELSE Under(parentOf[d], a)

RECURSIVE Ascending(_)
Ascending(S) ==
    IF S = {} THEN <<>>
    ELSE LET m == CHOOSE x \in S : \A y \in S : x <= y
         IN  <<m>> \o Ascending(S \ {m})

\* fs.readdir(d, { withFileTypes: true }): the file, the subdirectories and
\* the symbolic link of a directory.
entries(d) ==
    (IF d \in hasFile THEN <<[kind |-> "file", at |-> d]>> ELSE <<>>)
    \o [i \in 1..Cardinality({c \in Dirs : parentOf[c] = d}) |->
          [kind |-> "dir", at |-> Ascending({c \in Dirs : parentOf[c] = d})[i]]]
    \o (IF linkAt = d THEN <<[kind |-> "link", at |-> linkTo]>> ELSE <<>>)

NoResults == [files |-> <<>>, listed |-> <<>>, diverged |-> FALSE]

\* results = results.concat(subResults)
concat_DropsEarlier(acc, sub) ==
    [files |-> sub.files, listed |-> acc.listed \o sub.listed,
     diverged |-> acc.diverged \/ sub.diverged]

concat(acc, sub) ==
    [files |-> acc.files \o sub.files, listed |-> acc.listed \o sub.listed,
     diverged |-> acc.diverged \/ sub.diverged]

\* The depth check of _scanDirectoryRecursive.
depthReached(depth) == maxDepth > 0 /\ depth > maxDepth

\* _scanDirectoryRecursive(d, options, depth): the files it returns and the
\* directories it lists; diverged when the recursion does not end.
RECURSIVE scanRecursive(_, _)
RECURSIVE scanEntries(_, _, _)
scanRecursive(d, depth) ==
    IF depthReached(depth) THEN NoResults
    ELSE IF depth > CallCap THEN [NoResults EXCEPT !.diverged = TRUE]
    ELSE IF d = failing THEN NoResults
    ELSE scanEntries(entries(d), depth, [NoResults EXCEPT !.listed = <<[dir |-> d, depth |-> depth]>>])

scanEntries(es, depth, acc) ==
    IF es = <<>> THEN acc
    ELSE LET entry == Head(es)
             next == IF entry.kind = "dir"
                        THEN concat(acc, scanRecursive(entry.at, depth + 1))
                     ELSE IF entry.kind = "file"
                        THEN [acc EXCEPT !.files = Append(@, entry.at)]
                     ELSE IF followSymlinks /\ entry.at # NoDir
                        THEN concat(acc, scanRecursive(entry.at, depth + 1))
                     ELSE acc
         IN  scanEntries(Tail(es), depth, next)

\* FileSystemService.scanDirectory: for a root that is missing or no
\* directory it returns errorHandler.handle(error), the error object.
fsScanDirectory ==
    IF rootKind # "dir" THEN [NoResults EXCEPT !.files = "error object"]
    ELSE scanRecursive(Root, 1)

\* FileScanner.scanDirectory(dirPath)
ScanDirectory ==
    /\ spc = "idle"
    /\ LET allFiles == fsScanDirectory
       IN  /\ listed' = allFiles.listed
           /\ IF allFiles.diverged
              THEN /\ spc' = "diverged"
                   /\ scanned' = <<>>
                   /\ scanEvents' = <<"SCAN_STARTED">>
              ELSE IF rootKind # "dir"
              THEN /\ spc' = "rejected"
                   /\ scanned' = <<>>
                   /\ scanEvents' = <<"SCAN_STARTED", "SCAN_FAILED">>
              ELSE /\ spc' = "resolved"
                   /\ scanned' = allFiles.files
                   /\ scanEvents' = IF Len(allFiles.files) > 0
                                    THEN <<"SCAN_STARTED", "SCAN_PROGRESS", "SCAN_COMPLETED">>
                                    ELSE <<"SCAN_STARTED", "SCAN_COMPLETED">>
    /\ UNCHANGED <<parentOf, hasFile, linkAt, linkTo, failing, rootKind, maxDepth, followSymlinks>>
    /\ UNCHANGED <<files, gpc, books>>
    /\ UNCHANGED <<qvars, rvars, lvars, evars, mvars, ovars>>

(***************************************************************************)
(* Match scores: calculateStringMatchScore and calculateMatchScore         *)
(***************************************************************************)
\* A string is the sequence of its characters; a missing (undefined, null)
\* string and the empty string, both falsy, are the empty sequence.
UpperCase == <<"A", "B", "C", "D", "E", "F", "G", "H", "I", "J", "K", "L", "M",
               "N", "O", "P", "Q", "R", "S", "T", "U", "V", "W", "X", "Y", "Z">>
LowerCase == <<"a", "b", "c", "d", "e", "f", "g", "h", "i", "j", "k", "l", "m",
               "n", "o", "p", "q", "r", "s", "t", "u", "v", "w", "x", "y", "z">>
Digits == {"0", "1", "2", "3", "4", "5", "6", "7", "8", "9"}

\* \w and \s of the regular expressions.
WordChars == {UpperCase[i] : i \in 1..26} \cup {LowerCase[i] : i \in 1..26} \cup Digits \cup {"_"}
WhiteSpace == {" ", "\t"}

\* A score is a fraction num/den in lowest terms, den > 0.
RECURSIVE GCD(_, _)
GCD(a, b) == IF b = 0 THEN a ELSE GCD(b, a % b)

Frac(n, d) == LET g == GCD(n, d) IN [num |-> n \div g, den |-> d \div g]
Zero == Frac(0, 1)
One == Frac(1, 1)
FracAdd(x, y) == Frac(x.num * y.den + y.num * x.den, x.den * y.den)
FracMul(x, y) == Frac(x.num * y.num, x.den * y.den)
FracDiv(x, k) == Frac(x.num, x.den * k)
FracLess(x, y) == x.num * y.den < y.num * x.den
FracMax(x, y) == IF FracLess(x, y) THEN y ELSE x

Max(a, b) == IF a < b THEN b ELSE a

\* toLowerCase() of one character
toLowerCase(c) ==
    IF \E i \in 1..26 : UpperCase[i] = c
    THEN LowerCase[CHOOSE i \in 1..26 : UpperCase[i] = c]
    ELSE c

\* .replace(/\s+/g, ' '): every run of white space becomes one space (the
\* first character of the run is kept, as a space).
collapseSpaces(str) ==
    LET withPrevious == [i \in 1..Len(str) |->
                            [char |-> str[i],
                             inRun |-> i > 1 /\ str[i] \in WhiteSpace /\ str[i - 1] \in WhiteSpace]]
        kept == SelectSeq(withPrevious, LAMBDA x : ~x.inRun)
    IN  [i \in 1..Len(kept) |-> IF kept[i].char \in WhiteSpace THEN " " ELSE kept[i].char]

\* .trim() of a string whose white space is single spaces
trim(str) ==
    LET from == IF str # <<>> /\ str[1] = " " THEN 2 ELSE 1
        to == IF str # <<>> /\ str[Len(str)] = " " THEN Len(str) - 1 ELSE Len(str)
    IN  SubSeq(str, from, to)

\* .replace(/[^\w\s]/g, '')
removePunctuation_KeepsAll(str) == str

removePunctuation(str) == SelectSeq(str, LAMBDA c : c \in WordChars \cup WhiteSpace)

\* normalizeString(str)
normalizeString(str) ==
    trim(collapseSpaces(removePunctuation([i \in 1..Len(str) |-> toLowerCase(str[i])])))

\* a.includes(b)
includes(a, b) ==
    \E i \in 0..(Len(a) - Len(b)) : SubSeq(a, i + 1, i + Len(b)) = b

\* norm.split(/\s+/) of a normalized string: the words between its spaces
\* (the one empty word of the empty string).
RECURSIVE split(_)
split(norm) ==
    IF \E i \in 1..Len(norm) : norm[i] = " "
    THEN LET i == CHOOSE k \in 1..Len(norm) : norm[k] = " " /\ \A j \in 1..(k - 1) : norm[j] # " "
         IN  <<SubSeq(norm, 1, i - 1)>> \o split(SubSeq(norm, i + 1, Len(norm)))
    ELSE <<norm>>

\* The loops over words1 and words2: the words of words1 of at least three
\* characters that equal, contain or are contained in such a word of words2.
matchingWords(words1, words2) ==
    Cardinality({i \in 1..Len(words1) :
                    /\ Len(words1[i]) >= 3
                    /\ \E j \in 1..Len(words2) :
                          /\ Len(words2[j]) >= 3
                          /\ \/ words1[i] = words2[j]
                             \/ includes(words1[i], words2[j])
                             \/ includes(words2[j], words1[i])})

\* The loop over the first shorterLength characters.
sameCharCount(norm1, norm2) ==
    Cardinality({i \in 1..Min(Len(norm1), Len(norm2)) : norm1[i] = norm2[i]})

\* calculateStringMatchScore(str1, str2)
calculateStringMatchScore(str1, str2) ==
    IF str1 = <<>> \/ str2 = <<>> THEN Zero
    ELSE LET norm1 == normalizeString(str1)
             norm2 == normalizeString(str2)
             longerLength == Max(Len(norm1), Len(norm2))
             shorterLength == Min(Len(norm1), Len(norm2))
         IN  IF norm1 = norm2 THEN One
             ELSE IF includes(norm1, norm2) \/ includes(norm2, norm1)
             THEN FracMul(Frac(8, 10), Frac(shorterLength, longerLength))
             ELSE LET words1 == split(norm1)
                      words2 == split(norm2)
                      wordSimilarity == Frac(matchingWords(words1, words2),
                                             Max(Len(words1), Len(words2)))
                      charSimilarity == Frac(sameCharCount(norm1, norm2), longerLength)
                  IN  FracAdd(FracMul(wordSimilarity, Frac(7, 10)),
                              FracMul(charSimilarity, Frac(3, 10)))

\* A series is absent or a name with a position; a position is absent or a
\* string of digits.
NoSeries == [name |-> <<>>, position |-> <<>>, present |-> FALSE]
NoPosition == <<>>

\* parseInt(position, 10) of a string of digits
RECURSIVE parseInt(_)
parseInt(str) ==
    IF str = <<>> THEN 0
    ELSE 10 * parseInt(SubSeq(str, 1, Len(str) - 1))
         + (CHOOSE n \in 0..9 : ToString(n) = str[Len(str)])

\* The position part of the series score: 1 when both positions are given and
\* are the same string or the same number.
seriesPositionScore(filePos, metaPos) ==
    IF filePos # NoPosition /\ metaPos # NoPosition
    THEN IF filePos = metaPos \/ parseInt(filePos) = parseInt(metaPos) THEN One ELSE Zero
    ELSE Zero

\* Math.max(...authorMatches, 0)
RECURSIVE bestAuthorMatch(_, _)
bestAuthorMatch(author, authors) ==
    IF authors = <<>> THEN Zero
    ELSE FracMax(calculateStringMatchScore(author, Head(authors)),
                 bestAuthorMatch(author, Tail(authors)))

\* The weights of the fields compared: maxScore.
maxScoreOf(info, metadata) ==
    (IF info.title # <<>> /\ metadata.title # <<>> THEN 60 ELSE 0)
    + (IF info.author # <<>> /\ metadata.authors # <<>> THEN 30 ELSE 0)
    + (IF info.series.present /\ metadata.series.present THEN 10 ELSE 0)

\* The weighted sum of the sub-scores: score.
weightedScore(info, metadata) ==
    LET titlePart == IF info.title # <<>> /\ metadata.title # <<>>
                     THEN FracMul(calculateStringMatchScore(info.title, metadata.title),
                                  Frac(60, 1))
                     ELSE Zero
        authorPart == IF info.author # <<>> /\ metadata.authors # <<>>
                      THEN FracMul(bestAuthorMatch(info.author, metadata.authors), Frac(30, 1))
                      ELSE Zero
        seriesPart == IF info.series.present /\ metadata.series.present
                      THEN LET seriesNameScore ==
                                   calculateStringMatchScore(info.series.name,
                                                             metadata.series.name)
                               combinedSeriesScore ==
                                   FracAdd(FracMul(seriesNameScore, Frac(7, 10)),
                                           FracMul(seriesPositionScore(info.series.position,
                                                                       metadata.series.position),
                                                   Frac(3, 10)))
                           IN  FracMul(combinedSeriesScore, Frac(10, 1))
                      ELSE Zero
    IN  FracAdd(FracAdd(titlePart, authorPart), seriesPart)

\* The divisor of the last line: maxScore.
normalizer_AlwaysHundred(info, metadata) == 100

normalizer(info, metadata) == maxScoreOf(info, metadata)

\* calculateMatchScore(fileInfo, metadata)
calculateMatchScore(info, metadata) ==
    IF maxScoreOf(info, metadata) = 0 THEN Zero
    ELSE FracDiv(weightedScore(info, metadata), normalizer(info, metadata))

(***************************************************************************)
(* FileScanner.groupFilesByBooks                                           *)
(***************************************************************************)
MaxFiles == 2

\* A file name is an optional leading track number, a title and an optional
\* part suffix, e.g. "02 - Dune.mp3" (track 0: no number) or "Dune Part 1.mp3"
\* (part 0: no suffix); "It" is a title of less than three characters.  The
\* directory of a file is the path of its parent directory: the directory
\* named base inside the directory parent.
DirNames == {"a", "b"}
Parents == {"x", "y"}
Directories == [parent : Parents, base : DirNames]
Titles == {"Dune", "dune", "It"}
Tracks == {0, 1, 2}
Sizes == {1, 2}

\* The ways a part number is written behind a title: "Dune_Part1.mp3",
\* "Dune Part1.mp3", "Dune Part 1.mp3".
PartStyles == {"_PartN", " PartN", " Part N"}
NoPart == "none"
Parts == {1, 2}
Suffixes == {[style |-> NoPart, part |-> 0]} \cup [style : PartStyles, part : Parts]

\* toLowerCase()
Lower(t) == IF t = "Dune" THEN "dune" ELSE IF t = "It" THEN "it" ELSE t

\* The position of a title among the titles in localeCompare's order
\* (dune < Dune < It).
TitleRank(t) == IF t = "dune" THEN 1 ELSE IF t = "Dune" THEN 2 ELSE 3

\* bookName.length < 3
TooShort(t) == t = "It"

\* The position of what follows the title in localeCompare's order: a space
\* comes before "_", "_" before ".", and a space before a digit.
StyleRank(st) ==
    IF st = " Part N" THEN 1 ELSE IF st = " PartN" THEN 2 ELSE IF st = "_PartN" THEN 3 ELSE 4

\* a.name.localeCompare(b.name) < 0: names with a leading number come before
\* names without, in the order of their digits, then of their titles, then
\* of their suffixes; names that differ in case only, lower case first.
nameBefore(a, b) ==
    IF a.track # b.track
    THEN a.track # 0 /\ (b.track = 0 \/ a.track < b.track)
    ELSE IF Lower(a.title) # Lower(b.title) THEN TitleRank(a.title) < TitleRank(b.title)
    ELSE IF a.style # b.style THEN StyleRank(a.style) < StyleRank(b.style)
    ELSE IF a.part # b.part THEN a.part < b.part
    ELSE TitleRank(a.title) < TitleRank(b.title)

\* _extractTrackNumber(name) || 0: the leading number (/^(\d+)[_-\s]+/), else
\* a number between a space and the extension (/\s(\d+)\s*\.[^.]+$/).
trackNumber(f) ==
    IF f.track # 0 THEN f.track
    ELSE IF f.style = " Part N" THEN f.part
    ELSE 0

\* (a, b) => numA - numB, negative
trackBefore(a, b) == trackNumber(a) - trackNumber(b) < 0

\* (a, b) => b._matchScore - a._matchScore, negative
scoreBefore(a, b) == FracLess(b.matchScore, a.matchScore)

\* The comparator of one of the sorts: by "name", by "track" or by "score".
before(by, a, b) ==
    IF by = "name" THEN nameBefore(a, b)
    ELSE IF by = "track" THEN trackBefore(a, b)
    ELSE scoreBefore(a, b)

\* Array.prototype.sort with a comparator, which is stable: x is put
\* behind the elements that are not after it.
RECURSIVE insertSorted(_, _, _)
insertSorted(sorted, x, by) ==
    IF sorted = <<>> THEN <<x>>
    ELSE IF before(by, x, Head(sorted)) THEN <<x>> \o sorted
    ELSE <<Head(sorted)>> \o insertSorted(Tail(sorted), x, by)

RECURSIVE sortWith(_, _)
sortWith(seq, by) ==
    IF seq = <<>> THEN <<>>
    ELSE insertSorted(sortWith(SubSeq(seq, 1, Len(seq) - 1), by), seq[Len(seq)], by)

\* path.basename(file.directory)
dirBaseName(directory) == directory.base

\* .replace(/\s+part\s*\d+$/i, ''): a part suffix is removed when white space
\* comes before "part".
stripsPart(st) == st \in {" PartN", " Part N"}

\* _identifyBookKey(file): the base name of the directory and the name
\* without its track number and its part suffix, lower-cased; the whole base
\* name when the rest is too short.
identifyBookKey(f) ==
    LET kept == f.style # NoPart /\ ~stripsPart(f.style)
        whole == TooShort(f.title) /\ ~kept
    IN  [directory |-> dirBaseName(f.directory),
         track |-> IF whole THEN f.track ELSE 0,
         title |-> Lower(f.title),
         style |-> IF whole \/ kept THEN f.style ELSE NoPart,
         part |-> IF whole \/ kept THEN f.part ELSE 0]

\* book.files.push(file); book.totalSize += file.size
addToBook_ForgetsSize(book, f) == [book EXCEPT !.files = Append(@, f)]

addToBook(book, f) == [book EXCEPT !.files = Append(@, f), !.totalSize = @ + f.size]

\* bookMap.get(bookKey): the index in bs of the book with this key (0: none).
bookWithKey(bs, key) ==
    IF \E i \in 1..Len(bs) : bs[i].key = key
    THEN CHOOSE i \in 1..Len(bs) : bs[i].key = key
    ELSE 0

\* The for loop of groupFilesByBooks over the sorted files.
RECURSIVE groupLoop(_, _)
groupLoop(fs, bs) ==
    IF fs = <<>> THEN bs
    ELSE LET f == Head(fs)
             key == identifyBookKey(f)
             i == bookWithKey(bs, key)
         IN  IF i = 0
             THEN groupLoop(Tail(fs), Append(bs, [key |-> key, name |-> f.title,
                                                 directory |-> f.directory,
                                                 files |-> <<f>>, totalSize |-> f.size]))
             ELSE groupLoop(Tail(fs), [bs EXCEPT ![i] = addToBook(@, f)])

\* groupFilesByBooks(files)
groupFilesByBooks(fs) ==
    LET grouped == groupLoop(sortWith(fs, "name"), <<>>)
    IN  [i \in 1..Len(grouped) |-> [grouped[i] EXCEPT !.files = sortWith(@, "track")]]

\* The files to group: each with its position in the input as id.
GroupInit ==
    /\ \E n \in 0..MaxFiles :
          files \in {fs \in [1..n -> [id : 1..n, directory : Directories, title : Titles,
                                      track : Tracks, style : {NoPart}, part : {0},
                                      size : Sizes]] :
                       \A i \in 1..n : fs[i].id = i}
    /\ gpc = "idle"
    /\ books = <<>>

\* The files of multi-part books: names with part suffixes.
PartFiles ==
    {f \in [id : 1..MaxFiles, directory : Directories, title : Titles, track : {0, 1},
            style : PartStyles \cup {NoPart}, part : Parts \cup {0}, size : {1}] :
        [style |-> f.style, part |-> f.part] \in Suffixes}

PartInit ==
    /\ \E n \in 0..MaxFiles :
          files \in {fs \in [1..n -> PartFiles] : \A i \in 1..n : fs[i].id = i}
    /\ gpc = "idle"
    /\ books = <<>>

GroupFilesByBooks ==
    /\ gpc = "idle"
    /\ books' = groupFilesByBooks(files)
    /\ gpc' = "done"
    /\ UNCHANGED files
    /\ UNCHANGED <<parentOf, hasFile, linkAt, linkTo, failing, rootKind, maxDepth, followSymlinks,
                   spc, scanned, listed, scanEvents>>
    /\ UNCHANGED <<qvars, rvars, lvars, evars, mvars, ovars>>

(***************************************************************************)
(* rankMetadataResults, and the calls of the matching functions            *)
(***************************************************************************)
MaxCandidates == 3

\* { ...result, _matchScore: score }
withScore(result, score) ==
    [asin |-> result.asin, title |-> result.title, authors |-> result.authors,
     series |-> result.series, matchScore |-> score]

\* .sort((a, b) => b._matchScore - a._matchScore)
sortByScore_Ascending(scoredResults) ==
    LET sorted == sortWith(scoredResults, "score")
    IN  [i \in 1..Len(sorted) |-> sorted[Len(sorted) + 1 - i]]

sortByScore(scoredResults) == sortWith(scoredResults, "score")

\* rankMetadataResults(fileInfo, results), fileInfo an object and results an
\* array
rankMetadataResults(info, res) ==
    sortByScore([i \in 1..Len(res) |-> withScore(res[i], calculateMatchScore(info, res[i]))])

\* Titles, authors and series names of files and of metadata.
Dune == <<"D", "u", "n", "e">>
DuneLoud == <<"D", "U", "N", "E", "!">>
DuneMessiah == <<"D", "u", "n", "e", " ", "M", "e", "s", "s", "i", "a", "h">>
ChildrenOfDune == <<"C", "h", "i", "l", "d", "r", "e", "n", " ", "o", "f", " ", "D", "u", "n", "e">>
Emma == <<"E", "m", "m", "a">>
ProjectHailMary == <<"P", "r", "o", "j", "e", "c", "t", " ", "H", "a", "i", "l", " ", "M", "a", "r", "y">>
ProjectHailMaryANovel == <<"P", "r", "o", "j", "e", "c", "t", " ", "H", "a", "i", "l", " ", "M", "a", "r", "y", ":", " ", "A", " ", "N", "o", "v", "e", "l">>
FrankHerbert == <<"F", "r", "a", "n", "k", " ", "H", "e", "r", "b", "e", "r", "t">>
FHerbert == <<"F", ".", " ", "H", "e", "r", "b", "e", "r", "t">>
AndyWeir == <<"A", "n", "d", "y", " ", "W", "e", "i", "r">>
DuneChronicles == <<"D", "u", "n", "e", " ", "C", "h", "r", "o", "n", "i", "c", "l", "e", "s">>
NoString == <<>>

TitleStrings == {NoString, Dune, DuneLoud, DuneMessiah, ChildrenOfDune, Emma,
                 ProjectHailMary, ProjectHailMaryANovel}
AuthorStrings == {NoString, FrankHerbert, AndyWeir}
AuthorLists == {<<>>, <<FrankHerbert>>, <<FHerbert>>, <<AndyWeir, FrankHerbert>>}
Positions == {NoPosition, <<"1">>, <<"0", "1">>, <<"2">>}
SeriesValues ==
    {NoSeries} \cup [name : {Dune, DuneChronicles}, position : Positions, present : {TRUE}]

FileInfos == [title : TitleStrings, author : AuthorStrings, series : SeriesValues]
Metadata(asins) ==
    [asin : asins, title : TitleStrings, authors : AuthorLists, series : SeriesValues]

\* The metadata a search for "Dune" by Frank Herbert may return.
SearchResults(asins) ==
    [asin : asins, title : {NoString, Dune, DuneLoud, DuneMessiah, Emma},
     authors : {<<FrankHerbert>>}, series : {NoSeries}]

MatchIdle ==
    /\ fileInfo = [title |-> NoString, author |-> NoString, series |-> NoSeries]
    /\ metadataResults = <<>>
    /\ mpc = "idle"
    /\ matchScore = Zero
    /\ ranked = <<>>

\* One file and one metadata record.
ScoreInit ==
    /\ fileInfo \in FileInfos
    /\ metadataResults \in {<<m>> : m \in Metadata({1})}
    /\ mpc = "idle"
    /\ matchScore = Zero
    /\ ranked = <<>>

\* One file and the results of a search, each with its position as ASIN.
RankInit ==
    /\ fileInfo \in [title : {Dune}, author : {NoString, FrankHerbert}, series : {NoSeries}]
    /\ \E n \in 0..MaxCandidates :
          metadataResults \in {res \in [1..n -> SearchResults(1..n)] :
                                 \A i \in 1..n : res[i].asin = i}
    /\ mpc = "idle"
    /\ matchScore = Zero
    /\ ranked = <<>>

CalculateMatchScore ==
    /\ mpc = "idle"
    /\ Len(metadataResults) >= 1
    /\ matchScore' = calculateMatchScore(fileInfo, metadataResults[1])
    /\ mpc' = "scored"
    /\ UNCHANGED <<fileInfo, metadataResults, ranked>>
    /\ UNCHANGED <<qvars, rvars, lvars, evars, svars, ovars>>

RankMetadataResults ==
    /\ mpc = "idle"
    /\ ranked' = rankMetadataResults(fileInfo, metadataResults)
    /\ mpc' = "ranked"
    /\ UNCHANGED <<fileInfo, metadataResults, matchScore>>
    /\ UNCHANGED <<qvars, rvars, lvars, evars, svars, ovars>>

(***************************************************************************)
(* FileOrganizer._sanitizeFilePath                                         *)
(***************************************************************************)
\* const MAX_PATH_LENGTH = 240
MAX_PATH_LENGTH == 240

\* /[<>:"|?*\\]/g
invalidChars == {"<", ">", ":", "\"", "|", "?", "*", "\\"}

\* sanitized.replace(invalidChars, '_')
replaceInvalid(str) == [i \in 1..Len(str) |-> IF str[i] \in invalidChars THEN "_" ELSE str[i]]

\* The parts of a string between the occurrences of a separator.
RECURSIVE splitOn(_, _)
splitOn(str, sep) ==
    IF \E i \in 1..Len(str) : str[i] = sep
    THEN LET i == CHOOSE k \in 1..Len(str) : str[k] = sep /\ \A j \in 1..(k - 1) : str[j] # sep
         IN  <<SubSeq(str, 1, i - 1)>> \o splitOn(SubSeq(str, i + 1, Len(str)), sep)
    ELSE <<str>>

\* The path without its trailing slashes.
RECURSIVE withoutTrailingSlashes(_)
withoutTrailingSlashes(str) ==
    IF str # <<>> /\ str[Len(str)] = "/"
    THEN withoutTrailingSlashes(SubSeq(str, 1, Len(str) - 1))
    ELSE str

\* The last segment of a path.
lastSegment(str) ==
    LET segments == splitOn(withoutTrailingSlashes(str), "/")
    IN  segments[Len(segments)]

\* path.extname(path): the last segment from its last dot on, unless that
\* dot is its first character.
extname(str) ==
    LET segment == lastSegment(str)
        dots == {i \in 1..Len(segment) : segment[i] = "."}
        last == CHOOSE i \in dots : \A j \in dots : j <= i
    IN  IF dots = {} \/ segment = <<".", ".">> THEN <<>>
        ELSE IF last = 1 THEN <<>>
        ELSE SubSeq(segment, last, Len(segment))

\* path.dirname(path): the path up to the slash before its last segment.
dirname(str) ==
    LET ends == {i \in 2..Len(str) : str[i] = "/" /\ \E j \in (i + 1)..Len(str) : str[j] # "/"}
        end == CHOOSE i \in ends : \A j \in ends : j <= i
        hasRoot == str # <<>> /\ str[1] = "/"
    IN  IF ends = {} THEN (IF hasRoot THEN <<"/">> ELSE <<".">>)
        ELSE IF hasRoot /\ end = 2 THEN <<"/", "/">>
        ELSE SubSeq(str, 1, end - 1)

\* path.basename(path, ext): the last segment without the extension.
basename(str, ext) ==
    LET segment == lastSegment(str)
        n == Len(segment) - Len(ext)
    IN  IF ext # <<>> /\ n > 0 /\ SubSeq(segment, n + 1, Len(segment)) = ext
        THEN SubSeq(segment, 1, n)
        ELSE segment

\* The segments of a normalized path: ".." takes back the segment before it.
RECURSIVE resolveSegments(_, _, _)
resolveSegments(segments, done, isAbsolute) ==
    IF segments = <<>> THEN done
    ELSE LET seg == Head(segments)
         IN  IF seg = <<>> \/ seg = <<".">>
             THEN resolveSegments(Tail(segments), done, isAbsolute)
             ELSE IF seg = <<".", ".">> /\ done # <<>> /\ done[Len(done)] # <<".", ".">>
             THEN resolveSegments(Tail(segments), SubSeq(done, 1, Len(done) - 1), isAbsolute)
             ELSE IF seg = <<".", ".">> /\ isAbsolute
             THEN resolveSegments(Tail(segments), done, isAbsolute)
             ELSE resolveSegments(Tail(segments), Append(done, seg), isAbsolute)

RECURSIVE joinSegments(_)
joinSegments(segments) ==
    IF segments = <<>> THEN <<>>
    ELSE IF Len(segments) = 1 THEN segments[1]
    ELSE segments[1] \o <<"/">> \o joinSegments(Tail(segments))

\* path.normalize(path)
normalize(str) ==
    IF str = <<>> THEN <<".">>
    ELSE LET isAbsolute == str[1] = "/"
             trailing == str[Len(str)] = "/"
             body == joinSegments(resolveSegments(splitOn(str, "/"), <<>>, isAbsolute))
         IN  IF body = <<>> THEN (IF isAbsolute THEN <<"/">> ELSE IF trailing THEN <<".", "/">> ELSE <<".">>)
             ELSE (IF isAbsolute THEN <<"/">> ELSE <<>>) \o body
                  \o (IF trailing THEN <<"/">> ELSE <<>>)

\* path.join(a, b): the non-empty arguments joined by a slash, normalized.
join(a, b) ==
    IF a = <<>> /\ b = <<>> THEN <<".">>
    ELSE IF b = <<>> THEN normalize(a)
    ELSE IF a = <<>> THEN normalize(b)
    ELSE normalize(a \o <<"/">> \o b)

\* baseName.substring(0, n)
substring(str, n) == SubSeq(str, 1, IF n < 0 THEN 0 ELSE IF n > Len(str) THEN Len(str) ELSE n)

\* The two replacements of _sanitizeFilePath.
replaced(path) == collapseSpaces(replaceInvalid(path))

\* The length at which the path is cut.
tooLong(str) == Len(str) > MAX_PATH_LENGTH

\* The if block of _sanitizeFilePath: the base name cut to what is left of
\* the maximal length.
truncated(str) ==
    LET ext == extname(str)
        dirName == dirname(str)
        baseName == basename(str, ext)
        maxBaseNameLength == MAX_PATH_LENGTH - Len(dirName) - Len(ext) - 1
        truncatedBaseName == substring(baseName, maxBaseNameLength)
    IN  join(dirName, truncatedBaseName \o ext)

\* _sanitizeFilePath(filePath)
sanitizeFilePath(path) ==
    IF tooLong(replaced(path)) THEN truncated(replaced(path)) ELSE replaced(path)

\* The paths sanitized: a directory, a base name and an extension.  The
\* directory is missing, short or one long segment of a length near
\* MAX_PATH_LENGTH; the base name is short or long; parts may hold characters
\* that are replaced, doubled spaces or doubled slashes.
MaxOver == 2
NearLimit == 6
DirLengths == {0, 3, 200} \cup ((MAX_PATH_LENGTH - NearLimit)..(MAX_PATH_LENGTH + MaxOver))
BaseLengths == {1, 12, 40, MAX_PATH_LENGTH + 10}
Extensions == {<<>>, <<".", "m", "p", "3">>}
Decorations == {"plain", "invalid", "spaces", "slashes"}

Repeat(c, n) == [i \in 1..n |-> c]

\* A directory of the given length.
directoryOf(len, decoration) ==
    IF len = 0 THEN <<>>
    ELSE IF len = 3 THEN <<"l", "i", "b">>
    ELSE IF decoration = "slashes" THEN <<"/", "l", "i", "b", "/", "/">> \o Repeat("d", len - 6)
    ELSE IF decoration = "invalid" THEN <<"/", "C", ":", "/">> \o Repeat("d", len - 4)
    ELSE <<"/">> \o Repeat("d", len - 1)

\* A base name of the given length.
baseNameOf(len, decoration) ==
    IF len < 12 THEN Repeat("b", len)
    ELSE IF decoration = "invalid" THEN <<"W", "h", "o", "?", " ">> \o Repeat("b", len - 5)
    ELSE IF decoration = "spaces" THEN <<"A", " ", " ", "B">> \o Repeat("b", len - 4)
    ELSE Repeat("b", len)

pathOf(dirLen, baseLen, ext, decoration) ==
    (IF dirLen = 0 THEN <<>> ELSE directoryOf(dirLen, decoration) \o <<"/">>)
    \o baseNameOf(baseLen, decoration) \o ext

OrganizeIdle ==
    /\ filePath = <<>>
    /\ opc = "idle"
    /\ sanitized = <<>>
    /\ sanitizedAgain = <<>>

OrganizeInit ==
    /\ \E dirLen \in DirLengths, baseLen \in BaseLengths, ext \in Extensions,
          decoration \in Decorations :
          filePath = pathOf(dirLen, baseLen, ext, decoration)
    /\ opc = "idle"
    /\ sanitized = <<>>
    /\ sanitizedAgain = <<>>

\* const sanitizedPath = this._sanitizeFilePath(fullPath)
SanitizeFilePath ==
    /\ opc = "idle"
    /\ sanitized' = sanitizeFilePath(filePath)
    /\ opc' = "once"
    /\ UNCHANGED <<filePath, sanitizedAgain>>
    /\ UNCHANGED <<qvars, rvars, lvars, evars, svars, mvars>>

\* _sanitizeFilePath called with a path it returned
SanitizeAgain ==
    /\ opc = "once"
    /\ sanitizedAgain' = sanitizeFilePath(sanitized)
    /\ opc' = "twice"
    /\ UNCHANGED <<filePath, sanitized>>
    /\ UNCHANGED <<qvars, rvars, lvars, evars, svars, mvars>>

(***************************************************************************)
(* Specifications                                                          *)
(***************************************************************************)
\* A queue nobody uses.
QueueIdle ==
    /\ concurrency = 1
    /\ queue = <<>>
    /\ running = 0
    /\ completed = 0
    /\ failed = 0
    /\ phase = [t \in Tasks |-> "none"]
    /\ promise = [t \in Tasks |-> "none"]
    /\ microtasks = <<>>
    /\ added = 0
    /\ startOrder = <<>>
    /\ cleared = FALSE
    /\ clearReason = "none"
    /\ clearReturn = 0
    /\ runningAtClear = {}
    /\ wait = "none"

QueueSpecInit == QueueInit /\ RetryIdle /\ LookupIdle /\ EventInit /\ MatchIdle /\ OrganizeIdle /\ ScanIdle

QueueNext ==
    \/ Add
    \/ InvokeFn
    \/ \E t \in Tasks, ok \in BOOLEAN : Settle(t, ok)
    \/ Finish
    \/ \E reason \in Reasons : Clear(reason)

\* The queue together with the shutdown path that waits on it.
ShutdownNext ==
    \/ Add
    \/ InvokeFn
    \/ \E t \in Tasks, ok \in BOOLEAN : Settle(t, ok)
    \/ Finish
    \/ \E reason \in Reasons : Clear(reason)
    \/ WaitForAll
    \/ Tick

QueueSpec == QueueSpecInit /\ [][QueueNext]_vars

\* Fairness: the engine runs every pending promise job, and (the hypothesis
\* of the termination claim) every started operation settles.
QueueFairness ==
    /\ WF_vars(InvokeFn)
    /\ WF_vars(Finish)
    /\ \A t \in Tasks : WF_vars(\E ok \in BOOLEAN : Settle(t, ok))

QueueFair == QueueSpec /\ QueueFairness

\* Fairness of the shutdown path: also the interval timer keeps firing.
ShutdownFair == QueueSpecInit /\ [][ShutdownNext]_vars /\ QueueFairness /\ WF_vars(Tick)

\* retry() on its own, for every maxRetries and shouldRetry.
RetryInit == QueueIdle /\ RetryIdle /\ LookupIdle /\ EventInit /\ MatchIdle /\ OrganizeIdle /\ ScanIdle

RetryNext ==
    \/ \E mr \in 0..MaxRetriesBound, retryable \in SUBSET ErrorCodes : RetryStart(mr, retryable)
    \/ \E outcome \in Outcomes, jitter \in Jitters : RetryInvoke(outcome, jitter)
    \/ RetryWake

RetrySpec == RetryInit /\ [][RetryNext]_vars

\* processDirectory's loop over the books, down to the provider calls.
LookupSpecInit == QueueIdle /\ RetryIdle /\ LookupInit /\ EventInit /\ MatchIdle /\ OrganizeIdle /\ ScanIdle

LookupNext ==
    \/ \E tagAsin \in Asins \cup {NoAsin}, fileAsin \in Asins \cup {NoAsin} : BookStart(tagAsin, fileAsin)
    \/ \E outcome \in Outcomes, jitter \in Jitters : RetryInvoke(outcome, jitter)
    \/ RetryWake
    \/ LookupSettle
    \/ BookFinish

LookupSpec == LookupSpecInit /\ [][LookupNext]_vars

\* One processDirectory call from its start, with books that may fail.
BatchInit == QueueIdle /\ RetryIdle /\ LookupIdle /\ EventInit /\ MatchIdle /\ OrganizeIdle /\ ScanIdle

BatchNext ==
    \/ \E outcome \in ScanResults, n \in 0..MaxBooks : ProcessDirectory(outcome, n)
    \/ \E tagAsin \in Asins \cup {NoAsin}, fileAsin \in Asins \cup {NoAsin} : BookStart(tagAsin, fileAsin)
    \/ \E outcome \in Outcomes, jitter \in Jitters : RetryInvoke(outcome, jitter)
    \/ RetryWake
    \/ LookupSettle
    \/ BookFinish
    \/ \E how \in BookFailures : BookFails(how)
    \/ BatchEnd

BatchSpec == BatchInit /\ [][BatchNext]_vars

\* The awaited steps of a running processDirectory call are taken: provider
\* calls return or throw, backoff timers fire, the loop goes on.
BatchFairness ==
    WF_vars(\/ \E tagAsin \in Asins \cup {NoAsin}, fileAsin \in Asins \cup {NoAsin} : BookStart(tagAsin, fileAsin)
            \/ \E outcome \in Outcomes, jitter \in Jitters : RetryInvoke(outcome, jitter)
            \/ RetryWake
            \/ LookupSettle
            \/ BookFinish
            \/ \E how \in BookFailures : BookFails(how)
            \/ BatchEnd)

BatchFair == BatchSpec /\ BatchFairness

\* The dispatcher on its own.
EventSpecInit == QueueIdle /\ RetryIdle /\ LookupIdle /\ EventInit /\ MatchIdle /\ OrganizeIdle /\ ScanIdle

EventSpec == EventSpecInit /\ [][EventNext]_vars

\* The dispatcher with few subscriptions, every operation in every order.
MaxReplaySubs == 1

SubscribeFew(name, beh, once, immediate) ==
    /\ subscriptionCounter < MaxReplaySubs
    /\ Subscribe(name, beh, once, immediate)

ReplayNext ==
    \/ \E name \in EventNames, beh \in Behaviours, once \in BOOLEAN, immediate \in BOOLEAN :
          SubscribeFew(name, beh, once, immediate)
    \/ \E id \in SubIds : Unsubscribe(id)
    \/ \E name \in EventNames, data \in Payloads : Emit(name, data)
    \/ ReplayFires

ReplaySpec == EventSpecInit /\ [][ReplayNext]_vars

\* The dispatcher with handlers that call it while an event is emitted.
ReentrantNext ==
    \/ \E name \in EventNames, beh \in Behaviours, once \in BOOLEAN :
          Subscribe(name, beh, once, FALSE)
    \/ \E name \in EventNames, beh \in ReentrantBehaviours, target \in SubIds, once \in BOOLEAN :
          SubscribeReentrant(name, beh, target, once)
    \/ \E id \in SubIds : Unsubscribe(id)
    \/ \E name \in EventNames, data \in Payloads : Emit(name, data)

ReentrantSpec == EventSpecInit /\ [][ReentrantNext]_vars

\* One scan of one directory tree.
ScanSpecInit == QueueIdle /\ RetryIdle /\ LookupIdle /\ EventInit /\ MatchIdle /\ OrganizeIdle /\ ScanInit

ScanNext == ScanDirectory

ScanSpec == ScanSpecInit /\ [][ScanNext]_vars

\* One grouping of one list of files.
GroupSpecInit ==
    /\ QueueIdle /\ RetryIdle /\ LookupIdle /\ EventInit /\ MatchIdle /\ OrganizeIdle
    /\ parentOf = [d \in Dirs |-> IF d = Root THEN NoDir ELSE Root]
    /\ hasFile = {}
    /\ linkAt = NoDir
    /\ linkTo = NoDir
    /\ failing = NoDir
    /\ rootKind = "dir"
    /\ maxDepth = DefaultMaxDepth
    /\ followSymlinks = TRUE
    /\ spc = "idle"
    /\ scanned = <<>>
    /\ listed = <<>>
    /\ scanEvents = <<>>
    /\ GroupInit

GroupNext == GroupFilesByBooks

GroupSpec == GroupSpecInit /\ [][GroupNext]_vars

\* One grouping of one list of files of multi-part books.
PartSpecInit ==
    /\ QueueIdle /\ RetryIdle /\ LookupIdle /\ EventInit /\ MatchIdle /\ OrganizeIdle
    /\ parentOf = [d \in Dirs |-> IF d = Root THEN NoDir ELSE Root]
    /\ hasFile = {}
    /\ linkAt = NoDir
    /\ linkTo = NoDir
    /\ failing = NoDir
    /\ rootKind = "dir"
    /\ maxDepth = DefaultMaxDepth
    /\ followSymlinks = TRUE
    /\ spc = "idle"
    /\ scanned = <<>>
    /\ listed = <<>>
    /\ scanEvents = <<>>
    /\ PartInit

PartSpec == PartSpecInit /\ [][GroupNext]_vars

\* One score of one file against one metadata record.
ScoreSpecInit ==
    QueueIdle /\ RetryIdle /\ LookupIdle /\ EventInit /\ ScanIdle /\ OrganizeIdle /\ ScoreInit

ScoreNext == CalculateMatchScore

ScoreSpec == ScoreSpecInit /\ [][ScoreNext]_vars

\* One ranking of the results of one search.
RankSpecInit ==
    QueueIdle /\ RetryIdle /\ LookupIdle /\ EventInit /\ ScanIdle /\ OrganizeIdle /\ RankInit

RankNext ==
    \/ CalculateMatchScore
    \/ RankMetadataResults

RankSpec == RankSpecInit /\ [][RankNext]_vars

\* One path sanitized, and its result sanitized again.
OrganizeSpecInit ==
    QueueIdle /\ RetryIdle /\ LookupIdle /\ EventInit /\ ScanIdle /\ MatchIdle /\ OrganizeInit

OrganizeNext ==
    \/ SanitizeFilePath
    \/ SanitizeAgain

OrganizeSpec == OrganizeSpecInit /\ [][OrganizeNext]_vars

(***************************************************************************)
(* Properties of the queue                                                 *)
(***************************************************************************)
InFlight == {t \in Tasks : phase[t] \in InFlightPhases}

\* C1: with concurrency N >= 1, after any sequence of add() calls and task
\* completions, the number of tasks in the running state (the counter, and
\* the tasks started and not yet finished) never exceeds N.
C1_ConcurrencyBound ==
    /\ running <= concurrency
    /\ Cardinality(InFlight) <= concurrency
    /\ running = Cardinality(InFlight)

C1_Witness ==
    /\ running = concurrency
    /\ Len(queue) > 0
    /\ completed + failed > 0

\* C2: if every started operation settles and clear() is never called, every
\* task passed to add() has its promise settled eventually, and status()
\* eventually reports queued = 0, running = 0 and completed + failed = K.
C2_AllTasksSettle ==
    /\ \A t \in Tasks : (promise[t] = "pending") ~> (cleared \/ promise[t] \in {"value", "error"})
    /\ <>[](cleared \/ (/\ status.queued = 0
                           /\ status.running = 0
                           /\ status.completed + status.failed = added))

C2_Witness ==
    /\ ~cleared
    /\ added = MaxTasks
    /\ status.queued = 0 /\ status.running = 0
    /\ completed > 0 /\ failed > 0
    /\ completed + failed = MaxTasks
    /\ \A t \in Tasks : promise[t] \in {"value", "error"}

\* C3: tasks start executing in the order they were passed to add(): when the
\* operation of B starts, the operation of every task added before B and not
\* cleared has already started, whatever the order in which tasks finish.
C3_FifoStart ==
    \A i \in 1..Len(startOrder) :
        \A a \in 1..(startOrder[i] - 1) :
            phase[a] # "cancelled" => \E j \in 1..(i - 1) : startOrder[j] = a

C3_Witness ==
    /\ Len(startOrder) = 3
    /\ phase[1] = "executing"
    /\ phase[2] \in {"completed", "failed"}

\* C4: the queue is work-conserving: a finishing task starts the head waiting
\* task in the same step, and after every add() and every completion callback
\* queued > 0 implies running = concurrency.
C4_WorkConserving ==
    /\ [](Len(queue) > 0 => running = concurrency)
    /\ [][(completed' + failed' > completed + failed /\ Len(queue) > 0)
            => (queue' = Tail(queue) /\ phase'[Head(queue)] = "started")]_vars

C4_Witness ==
    /\ completed + failed > 0
    /\ Len(queue) > 0
    /\ \E t \in Tasks : t > concurrency /\ phase[t] = "started"

\* C5: clear(reason) removes every waiting task, rejects each of their
\* promises with the given reason, returns the number removed and leaves the
\* running tasks and the counters alone; a task that was running settles its
\* own promise with its own result and is counted.
C5_ClearStep ==
    \/ cleared' # cleared
    \/ clearReason' # clearReason
    \/ clearReturn' # clearReturn
    \/ runningAtClear' # runningAtClear
    \/ \E t \in Tasks : phase[t] = "queued" /\ phase'[t] = "cancelled"

C5_ClearRejectsWaiting ==
    /\ [][C5_ClearStep =>
            /\ queue' = <<>>
            /\ clearReturn' = Len(queue)
            /\ \A t \in Tasks :
                 IF phase[t] = "queued"
                 THEN phase'[t] = "cancelled" /\ promise'[t] = clearReason'
                 ELSE phase'[t] = phase[t] /\ promise'[t] = promise[t]
            /\ running' = running /\ completed' = completed /\ failed' = failed
            /\ microtasks' = microtasks]_vars
    /\ [](\A t \in Tasks :
            /\ phase[t] = "completed" => promise[t] = "value"
            /\ phase[t] = "failed" => promise[t] = "error"
            /\ phase[t] = "cancelled" => promise[t] \in Reasons)
    /\ [](/\ completed = Cardinality({t \in Tasks : phase[t] = "completed"})
          /\ failed = Cardinality({t \in Tasks : phase[t] = "failed"}))
    /\ [][\A t \in Tasks : phase[t] = "cancelled" =>
            phase'[t] = "cancelled" /\ promise'[t] = promise[t]]_vars
    /\ \A t \in Tasks :
         (t \in runningAtClear) ~> (/\ phase[t] \in {"completed", "failed"}
                                    /\ promise[t] \in {"value", "error"})

C5_Witness ==
    /\ cleared
    /\ clearReturn > 0
    /\ \E t \in Tasks : phase[t] = "cancelled" /\ promise[t] = clearReason
    /\ \E t \in runningAtClear : phase[t] = "completed" /\ promise[t] = "value"
    /\ \E t \in runningAtClear : phase[t] = "failed" /\ promise[t] = "error"

\* C6: waitForAll() resolves only when no task is running, and then no task
\* is waiting either; called on an idle queue it resolves at once; and once
\* the queue is idle and stays idle it resolves.
C6_WaitForAll ==
    /\ [][(wait \in {"none", "polling"} /\ wait' \in {"resolved_at_call", "resolved_by_timer"})
            => (running' = 0 /\ Len(queue') = 0 /\ running = 0)]_vars
    /\ [][(wait = "none" /\ wait' # "none" /\ running = 0) => wait' = "resolved_at_call"]_vars
    /\ (wait = "polling" /\ running = 0) ~> (wait = "resolved_by_timer" \/ running > 0)

C6_Witness ==
    /\ wait = "resolved_by_timer"
    /\ completed + failed > 0
    /\ running = 0


(***************************************************************************)
(* Properties of retry and of the lookup path                              *)
(***************************************************************************)

\* C7: retry invokes fn at most maxRetries + 1 times; it returns the result
\* of the first successful invocation and invokes fn no more; after a failure
\* that shouldRetry refuses it invokes fn no more and throws that error;
\* after maxRetries + 1 failures it throws the error of the last invocation.
C7_RetryBound ==
    /\ Len(callLog) <= rMaxRetries + 1
    /\ \A i \in 1..(Len(callLog) - 1) : callLog[i] \in rRetryable
    /\ (Len(callLog) > 0 /\ callLog[Len(callLog)] = Ok) =>
           (rpc = "returned" /\ rResult = Ok)
    /\ (Len(callLog) > 0 /\ callLog[Len(callLog)] \in ErrorCodes \ rRetryable) =>
           (rpc = "threw" /\ rResult = callLog[Len(callLog)])
    /\ (Len(callLog) = rMaxRetries + 1 /\ callLog[Len(callLog)] # Ok) =>
           (rpc = "threw" /\ rResult = callLog[Len(callLog)])
    /\ rpc = "returned" => (Len(callLog) > 0 /\ callLog[Len(callLog)] = Ok)
    /\ rpc = "threw" =>
           /\ Len(callLog) > 0
           /\ rResult = callLog[Len(callLog)]
           /\ rResult \in ErrorCodes
           /\ (Len(callLog) = rMaxRetries + 1 \/ ~(rResult \in rRetryable))

C7_Witness ==
    /\ rpc = "threw"
    /\ rMaxRetries = 2
    /\ Len(callLog) = 3
    /\ callLog[1] # callLog[3]
    /\ rRetryable # ErrorCodes
    /\ rResult \in rRetryable

\* C8: in lookupByAsin a not-found (404) failure of the provider call leads
\* to exactly one provider call and a MetadataNotFoundError, while a
\* transient failure leads to further attempts up to the retry bound.
C8_NotFoundNotRetried ==
    \A i \in 1..Len(results.books) :
        LET b == results.books[i]
        IN  /\ (Len(b.calls) > 0 /\ b.calls[1] = NotFound) =>
                   (Len(b.calls) = 1 /\ b.lookup = "MetadataNotFoundError")
            /\ (Len(b.calls) > 0 /\ \A k \in 1..Len(b.calls) : b.calls[k] \in Transient) =>
                   Len(b.calls) = LookupMaxRetries + 1

\* A book whose lookup made every allowed provider call and got a transient
\* error each time.
Exhausted(b) ==
    /\ Len(b.calls) = LookupMaxRetries + 1
    /\ \A k \in 1..Len(b.calls) : b.calls[k] \in Transient

InvocationsOf(id) == Cardinality({i \in 1..Len(invoked) : invoked[i].id = id})

Registered(id) ==
    \/ id \in DOMAIN subscriptions
    \/ \E n \in EventNames : \E i \in 1..Len(handlers[n]) : handlers[n][i].id = id

\* C10: a subscription made with once: true has its handler invoked at most
\* once, whatever the interleaving of subscribe, emit and the replay timer,
\* and is no longer registered after that first invocation, whether the
\* handler returned or threw.
C10_OnceAtMostOnce ==
    \A id \in 1..Len(made) :
        made[id].once =>
            /\ InvocationsOf(id) <= 1
            /\ InvocationsOf(id) >= 1 => ~Registered(id)

\* The parts of C10 taken apart: a once handler that only ever returns and is
\* never replayed is invoked at most once and unregistered afterwards.
C10_OnceReturningNoReplay ==
    \A id \in 1..Len(made) :
        (made[id].once /\ made[id].beh = "returns" /\ ~made[id].immediate) =>
            /\ InvocationsOf(id) <= 1
            /\ InvocationsOf(id) >= 1 => ~Registered(id)

\* A once handler invoked by both an emit and the replay timer.
C10_InvokedTwice ==
    \E id \in 1..Len(made) :
        /\ made[id].once /\ made[id].beh = "returns"
        /\ \E i, j \in 1..Len(invoked) :
              /\ invoked[i].id = id /\ invoked[i].via = "emit"
              /\ invoked[j].id = id /\ invoked[j].via = "replay"

\* A once handler that threw during emit and is still registered.
C10_ThrowerStays ==
    \E id \in 1..Len(made) :
        /\ made[id].once /\ made[id].beh = "throws"
        /\ InvocationsOf(id) >= 1
        /\ Registered(id)


\* The ids of the entries of an array of handlers, in order.
RECURSIVE idsOf(_)
idsOf(arr) == IF arr = <<>> THEN <<>> ELSE <<Head(arr).id>> \o idsOf(Tail(arr))

\* The dispatcher with every handler of name returning normally.
allReturning(d, name) ==
    [d EXCEPT !.h[name] = [i \in 1..Len(d.h[name]) |-> [d.h[name][i] EXCEPT !.beh = "returns"]]]

\* The registrations emit(name, data) leaves behind on dispatcher d.
afterEmit(d, name, data) ==
    LET looped == emitLoop(d, name, data, 1, Len(d.h[name]), <<>>)
    IN  unsubscribeAll(looped.d, looped.rm)

\* The invocations an emit step added to the history.
newInvocations == SubSeq(invoked', Len(invoked) + 1, Len(invoked'))

\* C11: during emit(name, data) a handler that throws does not stop the
\* emission: every handler registered for name is invoked with data, emit
\* returns the number of handlers that were registered for name, and the
\* handlers and subscriptions maps hold the same registrations as they would
\* had every handler returned normally.
C11_ThrowDoesNotStopEmit ==
    [][\A n \in EventNames, data \in Payloads :
         Emit(n, data) =>
            LET normal == afterEmit(allReturning(Dispatcher, n), n, data)
            IN  /\ emitReturn' = Len(handlers[n])
                /\ Len(newInvocations) = Len(handlers[n])
                /\ \A i \in 1..Len(handlers[n]) :
                      newInvocations[i] = [id |-> handlers[n][i].id, data |-> data, via |-> "emit"]
                /\ \A m \in EventNames : idsOf(handlers'[m]) = idsOf(normal.h[m])
                /\ DOMAIN subscriptions' = DOMAIN normal.s]_vars

\* C11 without its last part: whatever the handlers do, all of them are
\* invoked with data, in order, and emit returns their number.
C11_AllInvoked ==
    [][\A n \in EventNames, data \in Payloads :
         Emit(n, data) =>
            /\ emitReturn' = Len(handlers[n])
            /\ Len(newInvocations) = Len(handlers[n])
            /\ \A i \in 1..Len(handlers[n]) :
                  newInvocations[i] = [id |-> handlers[n][i].id, data |-> data, via |-> "emit"]]_vars


\* How often the replay of subscription id is pending, and how often it fired.
PendingReplays(id) == Cardinality({i \in 1..Len(timers) : timers[i].id = id})

Replays(id) == {i \in 1..Len(invoked) : invoked[i].id = id /\ invoked[i].via = "replay"}

\* A subscribe call that found a payload retained for its event name and asked for it.
ReplayDue(id) == made[id].immediate /\ made[id].last # NoEvent

\* C12: subscribe(name, h, {immediate: true}) does not invoke h itself; when a
\* payload was retained for name at the call (whether or not anybody was
\* subscribed when it was emitted) exactly one replay is scheduled, and when
\* it fires h gets the payload that was the most recent one for name at the
\* call; when no payload was retained, or immediate was not asked for, no
\* replay is pending and none ever fires.
C12_ReplayState ==
    \A id \in 1..Len(made) :
        /\ ReplayDue(id) => PendingReplays(id) + Cardinality(Replays(id)) = 1
        /\ ~ReplayDue(id) => PendingReplays(id) + Cardinality(Replays(id)) = 0
        /\ \A i \in Replays(id) : invoked[i].data = made[id].last

C12_SubscribeStep ==
    \A n \in EventNames, beh \in Behaviours, once \in BOOLEAN, immediate \in BOOLEAN :
        Subscribe(n, beh, once, immediate) =>
            /\ invoked' = invoked
            /\ made'[Len(made')].last = lastEvents[n]
            /\ lastEvents[n] # NoEvent => emits > 0

C12_ImmediateReplay == [](C12_ReplayState) /\ [][C12_SubscribeStep]_vars

\* A replay has fired with a payload that was emitted while nobody was
\* subscribed, and a newer payload had been emitted before it fired.
C12_Witness ==
    \E id \in 1..Len(made) :
        /\ Replays(id) # {}
        /\ made[id].last # lastEvents[made[id].name]
        /\ id = 1


(***************************************************************************)
(* Properties of processDirectory                                          *)
(***************************************************************************)
Terminal(ev) == ev.type \in {"BATCH_COMPLETED", "BATCH_FAILED"}

TerminalEvents == {i \in 1..Len(batchEvents) : Terminal(batchEvents[i])}

ProgressEvents == {i \in 1..Len(batchEvents) : batchEvents[i].type = "BATCH_PROGRESS"}

\* C13: whenever the scan succeeds, results.books holds exactly one entry for
\* every book group, in grouping order, whatever subset of the books fails; a
\* book whose processing fails appears with status 'failed' and an error
\* message and the books after it are processed all the same.
C13_BooksState ==
    /\ \A i \in 1..Len(results.books) : results.books[i].book = i
    /\ \A i \in 1..Len(results.books) :
          results.books[i].status = "failed" <=> results.books[i].error # "none"
    /\ Len(results.books) = IF bpc = "idle" THEN curBook ELSE curBook - 1
    /\ batchPc = "resolved" => Len(results.books) = nBooks

C13_FailStep ==
    \A how \in BookFailures :
        BookFails(how) =>
            /\ Len(results'.books) = Len(results.books) + 1
            /\ results'.books[Len(results'.books)].status = "failed"
            /\ results'.books[Len(results'.books)].error # "none"
            /\ batchPc' = "books"

C13_OneEntryPerBook == [](C13_BooksState) /\ [][C13_FailStep]_vars

\* A batch that resolved with a failed book before a processed one.
C13_Witness ==
    /\ batchPc = "resolved"
    /\ nBooks = 2
    /\ Len(results.books) = 2
    /\ results.books[1].status = "failed"
    /\ results.books[2].status = "processed"

\* C14: when processDirectory completes, every book of results.books has
\* been counted in exactly one of processed, failed, skipped, so their sum is
\* the number of book groups, and the BATCH_PROGRESS events carry
\* processed = 1, 2, ..., total in that order.
C14_CountedOnce ==
    batchPc = "resolved" =>
        /\ results.processed + results.failed + results.skipped = nBooks
        /\ Cardinality(ProgressEvents) = nBooks
        /\ \A i \in ProgressEvents : batchEvents[i].processed = i /\ batchEvents[i].total = nBooks

\* What holds of the counters: each counts the entries of its status, and
\* one progress event is emitted for every book processBook returned a
\* result for.
C14_CountersMatchStatus ==
    /\ results.processed = Cardinality({i \in 1..Len(results.books) : results.books[i].status = "processed"})
    /\ results.failed = Cardinality({i \in 1..Len(results.books) : results.books[i].status = "failed"})
    /\ results.skipped = 0
    /\ Cardinality(ProgressEvents) = processedCount
    /\ \A i \in ProgressEvents : batchEvents[i].processed = i

\* C15: a processDirectory call ends, and ends with exactly one terminal
\* batch event, emitted after every BATCH_PROGRESS event: BATCH_FAILED, with
\* the call rejecting, exactly when the scan or grouping phase failed, and
\* BATCH_COMPLETED, with the call resolving, otherwise; failed books never
\* produce BATCH_FAILED.
C15_TerminalState ==
    /\ batchPc \in {"idle", "books"} => TerminalEvents = {}
    /\ batchPc \in {"resolved", "rejected"} => TerminalEvents = {Len(batchEvents)}
    /\ batchPc = "rejected" <=> (\E i \in 1..Len(batchEvents) : batchEvents[i].type = "BATCH_FAILED")
    /\ batchPc = "resolved" <=> (\E i \in 1..Len(batchEvents) : batchEvents[i].type = "BATCH_COMPLETED")
    /\ batchPc = "rejected" => scanResult \in {"scanFailed", "groupFailed"}
    /\ batchPc \in {"books", "resolved"} => scanResult = "ok"

Emitted(ev) == \E i \in 1..Len(scanEvents) : scanEvents[i] = ev

Times(seq, x) == Cardinality({i \in 1..Len(seq) : seq[i] = x})

TimesListed(d) == Cardinality({i \in 1..Len(listed) : listed[i].dir = d})

\* The link leads back to the directory that holds it or to one above it.
Circular == linkAt # NoDir /\ linkTo # NoDir /\ Under(linkAt, linkTo)

\* C16: if the root directory cannot be read (it does not exist, is not a
\* directory, or listing its entries fails) the scan fails as a whole:
\* scanDirectory rejects, SCAN_FAILED is emitted and SCAN_COMPLETED is not,
\* and no file list, partial or empty, is returned as a success.
C16_UnreadableRootFails ==
    (spc # "idle" /\ (rootKind # "dir" \/ failing = Root)) =>
        /\ spc = "rejected"
        /\ Emitted("SCAN_FAILED")
        /\ ~Emitted("SCAN_COMPLETED")

\* What holds of C16: a root that is missing or is no directory fails the scan.
C16_MissingRootFails ==
    (spc # "idle" /\ rootKind # "dir") =>
        /\ spc = "rejected"
        /\ Emitted("SCAN_FAILED")
        /\ ~Emitted("SCAN_COMPLETED")

\* C17: if reading one subdirectory fails during the traversal, the scan
\* still completes successfully and returns every qualifying file outside
\* that subdirectory's subtree, whether its directory comes before or after
\* the failing one (within the depth limit, when there is one); the failing
\* directory itself is not listed.
C17_SubdirectoryFailureIsLocal ==
    (spc # "idle" /\ rootKind = "dir" /\ failing \notin {NoDir, Root}) =>
        /\ spc \in {"resolved", "diverged"}
        /\ spc = "resolved" =>
              /\ Emitted("SCAN_COMPLETED") /\ ~Emitted("SCAN_FAILED")
              /\ \A d \in hasFile :
                    (~Under(d, failing) /\ (maxDepth = 0 \/ Level(d) <= maxDepth)) =>
                        Times(scanned, d) >= 1
              /\ TimesListed(failing) = 0

\* The directory in the middle fails, and files of its parent and of the
\* sibling after it are returned.
C17_Witness ==
    /\ spc = "resolved"
    /\ failing = 2
    /\ parentOf[2] = Root /\ parentOf[3] = Root
    /\ hasFile = {1, 2, 3}
    /\ linkAt = NoDir
    /\ scanned = <<1, 3>>

\* C18: the traversal depth is always bounded: with a positive maxDepth D no
\* directory is listed deeper than D levels (the root being level 1), and a
\* maxDepth of 0 is not taken to mean no limit (the default ceiling applies).
C18_DepthBounded ==
    /\ spc # "diverged"
    /\ \A i \in 1..Len(listed) :
          listed[i].depth <= (IF maxDepth > 0 THEN maxDepth ELSE DefaultMaxDepth)

\* What holds of C18: a positive maxDepth is a ceiling.
C18_PositiveDepthIsCeiling ==
    maxDepth > 0 =>
        /\ spc # "diverged"
        /\ \A i \in 1..Len(listed) : listed[i].depth <= maxDepth

\* C19: with symbolic links followed, a circular link is skipped: the scan
\* ends, no directory is listed more than once and no file is returned more
\* than once; a broken link is skipped without failing the scan.
C19_CircularLinkSkipped ==
    (spc # "idle" /\ rootKind = "dir" /\ followSymlinks /\ linkAt # NoDir) =>
        /\ Circular =>
              /\ spc = "resolved"
              /\ \A d \in Dirs : TimesListed(d) <= 1
              /\ \A d \in Dirs : Times(scanned, d) <= 1
        /\ linkTo = NoDir => spc = "resolved"

\* What holds of C19: a broken link does not fail the scan, and with a
\* positive maxDepth the scan of a tree with a circular link ends.
C19_BrokenLinkSkipped ==
    (spc # "idle" /\ rootKind = "dir" /\ followSymlinks /\ linkAt # NoDir) =>
        /\ linkTo = NoDir => spc = "resolved"
        /\ (Circular /\ maxDepth > 0) => spc = "resolved"


(***************************************************************************)
(* Properties of the grouping                                              *)
(***************************************************************************)
RECURSIVE SumSizes(_)
SumSizes(fs) == IF fs = <<>> THEN 0 ELSE Head(fs).size + SumSizes(Tail(fs))

\* The places (book, position) at which file number i of the input occurs.
PlacesOf(i) ==
    {p \in (1..Len(books)) \X (1..MaxFiles) :
        p[2] <= Len(books[p[1]].files) /\ books[p[1]].files[p[2]] = files[i]}

\* C20: the groups groupFilesByBooks returns partition its input: each input
\* file is in the files of exactly one group, no group is empty, no two
\* groups share a key, there are at most as many groups as files, and each
\* group's totalSize is the sum of the sizes of its files.
C20_GroupsPartitionFiles ==
    gpc = "done" =>
        /\ \A i \in 1..Len(files) : Cardinality(PlacesOf(i)) = 1
        /\ \A b \in 1..Len(books) : Len(books[b].files) >= 1
        /\ \A b \in 1..Len(books) : \A k \in 1..Len(books[b].files) :
              \E i \in 1..Len(files) : books[b].files[k] = files[i]
        /\ \A b, c \in 1..Len(books) : b # c => books[b].key # books[c].key
        /\ Len(books) <= Len(files)
        /\ \A b \in 1..Len(books) : books[b].totalSize = SumSizes(books[b].files)

\* Two tracks given out of order, their titles differing in case only, make
\* one book with the tracks in order.
C20_Witness ==
    /\ gpc = "done"
    /\ Len(files) = 2
    /\ files[1].title # files[2].title
    /\ Len(books) = 1
    /\ Len(books[1].files) = 2
    /\ books[1].files[1].id = 2
    /\ books[1].files[2].id = 1
    /\ books[1].totalSize = 3

(***************************************************************************)
(* Properties of the grouping of multi-part books                          *)
(***************************************************************************)
\* Two files of one directory whose names differ only in the number of their
\* part suffix.
SameStem(f, g) ==
    /\ f.directory = g.directory
    /\ f.track = g.track
    /\ f.title = g.title
    /\ f.style = g.style
    /\ f.style # NoPart
    /\ f.part # g.part

\* The files of a group are in the order of their track numbers.
InTrackOrder(fs) ==
    \A k \in 1..(Len(fs) - 1) : trackNumber(fs[k]) <= trackNumber(fs[k + 1])

\* C21: files of one directory that share a stem and differ only in a numeric
\* part suffix are grouped into exactly one book that contains all of them,
\* its files ordered by the extracted track number.
C21_PartsMakeOneBook ==
    (gpc = "done" /\ Len(files) = 2 /\ SameStem(files[1], files[2])) =>
        /\ Len(books) = 1
        /\ Len(books[1].files) = 2
        /\ InTrackOrder(books[1].files)

\* C21, for the names whose part suffix follows white space and whose title
\* has at least three characters: one book, its files in track order.
C21_SpacedPartsMakeOneBook ==
    (/\ gpc = "done" /\ Len(files) = 2 /\ SameStem(files[1], files[2])
     /\ stripsPart(files[1].style) /\ ~TooShort(files[1].title)) =>
        /\ Len(books) = 1
        /\ Len(books[1].files) = 2
        /\ InTrackOrder(books[1].files)

\* C22: two files whose directory fields differ are never placed in the same
\* book, even when their names are the same.
C22_GroupingScopedToDirectory ==
    gpc = "done" =>
        \A b \in 1..Len(books) : \A k, l \in 1..Len(books[b].files) :
            books[b].files[k].directory = books[b].files[l].directory

\* C22, for directories of different names: their files are never in the
\* same book.
C22_DifferentNamesNeverShare ==
    gpc = "done" =>
        \A b \in 1..Len(books) : \A k, l \in 1..Len(books[b].files) :
            dirBaseName(books[b].files[k].directory) = dirBaseName(books[b].files[l].directory)

(***************************************************************************)
(* Properties of the match scores                                          *)
(***************************************************************************)
FracLeq(x, y) == ~FracLess(y, x)

\* The metadata record calculateMatchScore was called with.
Candidate == metadataResults[1]

\* The file's title and author are the metadata's title and one of its
\* authors.
SameTitleAndAuthor ==
    /\ fileInfo.title # NoString
    /\ fileInfo.title = Candidate.title
    /\ fileInfo.author # NoString
    /\ \E i \in 1..Len(Candidate.authors) : Candidate.authors[i] = fileInfo.author

SeriesCompared == fileInfo.series.present /\ Candidate.series.present

NothingCompared ==
    /\ fileInfo.title = NoString \/ Candidate.title = NoString
    /\ fileInfo.author = NoString \/ Candidate.authors = <<>>
    /\ ~SeriesCompared

\* C23: the match score lies in [0,1]; it is exactly 1 when title and author
\* are identical on both sides and no series is compared; it is exactly 0
\* when no field is present on both sides.
C23_ScoreBounds ==
    mpc = "scored" =>
        /\ FracLeq(Zero, matchScore) /\ FracLeq(matchScore, One)
        /\ (SameTitleAndAuthor /\ ~SeriesCompared) => matchScore = One
        /\ NothingCompared => matchScore = Zero

\* A file and a record with the same title and author, one of them with a
\* series the other does not have, score 1.
C23_Witness ==
    /\ mpc = "scored"
    /\ SameTitleAndAuthor
    /\ fileInfo.series.present
    /\ ~Candidate.series.present
    /\ Len(Candidate.authors) = 2
    /\ matchScore = One

\* The same file and record without their series.
WithoutSeries(r) == [r EXCEPT !.series = NoSeries]

\* Both sides have a series of the same name, and the same position when
\* both give one.
MatchingSeries ==
    /\ SeriesCompared
    /\ fileInfo.series.name = Candidate.series.name
    /\ (fileInfo.series.position # NoPosition /\ Candidate.series.position # NoPosition)
           => parseInt(fileInfo.series.position) = parseInt(Candidate.series.position)

\* C24: for a file and a record whose title and author already match, a
\* matching series on both sides (with or without a position on either side)
\* never yields a lower score than the score without the series.
C24_SeriesNeverLowersScore ==
    (mpc = "scored" /\ SameTitleAndAuthor /\ MatchingSeries) =>
        FracLeq(calculateMatchScore(WithoutSeries(fileInfo), WithoutSeries(Candidate)),
                matchScore)

\* C24, when both sides give the position of the matching series: the score
\* is not lower than without the series.
C24_SeriesWithPositionsNeverLowersScore ==
    (/\ mpc = "scored" /\ SameTitleAndAuthor /\ MatchingSeries
     /\ fileInfo.series.position # NoPosition /\ Candidate.series.position # NoPosition) =>
        FracLeq(calculateMatchScore(WithoutSeries(fileInfo), WithoutSeries(Candidate)),
                matchScore)

\* The title "Project Hail Mary" is scored against "Project Hail Mary: A
\* Novel", no other field compared.
HailMaryCase ==
    /\ mpc = "scored"
    /\ fileInfo.title = ProjectHailMary
    /\ Candidate.title = ProjectHailMaryANovel
    /\ fileInfo.author = NoString \/ Candidate.authors = <<>>
    /\ ~SeriesCompared

\* C25 as stated: the string-match sub-score of the two titles is
\* 0.8 x (17/26), and so is the overall score.
C25_ContainmentOver26 ==
    HailMaryCase =>
        /\ calculateStringMatchScore(fileInfo.title, Candidate.title)
              = FracMul(Frac(8, 10), Frac(17, 26))
        /\ matchScore = FracMul(Frac(8, 10), Frac(17, 26))

\* C25, amended: the string-match sub-score of the two titles is the
\* containment value 0.8 x (17/25), 25 being the length of the longer title
\* without its colon, and so is the overall score.
C25_ContainmentOver25 ==
    HailMaryCase =>
        /\ calculateStringMatchScore(fileInfo.title, Candidate.title)
              = FracMul(Frac(8, 10), Frac(17, 25))
        /\ matchScore = FracMul(Frac(8, 10), Frac(17, 25))

C25_Witness ==
    /\ HailMaryCase
    /\ Len(normalizeString(Candidate.title)) = 25
    /\ matchScore = Frac(68, 125)

\* The places in ranked of the result with this ASIN.
RankOf(asin) == {k \in 1..Len(ranked) : ranked[k].asin = asin}

\* C26: rankMetadataResults returns one result per input candidate, with
\* that candidate's score, ordered so that scores are non-increasing and
\* candidates of equal score keep their input order; the input is not
\* reordered.
C26_RankedState ==
    mpc = "ranked" =>
        /\ Len(ranked) = Len(metadataResults)
        /\ \A i \in 1..Len(metadataResults) :
              /\ Cardinality(RankOf(i)) = 1
              /\ \A k \in RankOf(i) :
                    ranked[k] = withScore(metadataResults[i],
                                          calculateMatchScore(fileInfo, metadataResults[i]))
        /\ \A k \in 1..(Len(ranked) - 1) : FracLeq(ranked[k + 1].matchScore, ranked[k].matchScore)
        /\ \A k, l \in 1..Len(ranked) :
              (k < l /\ ranked[k].matchScore = ranked[l].matchScore)
                 => ranked[k].asin < ranked[l].asin

C26_RankedStableDescending ==
    [](C26_RankedState) /\ [][metadataResults' = metadataResults]_vars

\* Three results given in ascending order of score, the last two of equal
\* score: the ranking puts those two first, in their input order.
C26_Witness ==
    /\ mpc = "ranked"
    /\ Len(ranked) = 3
    /\ ranked[1].asin = 2
    /\ ranked[2].asin = 3
    /\ ranked[3].asin = 1
    /\ ranked[1].matchScore = ranked[2].matchScore
    /\ FracLess(ranked[3].matchScore, ranked[2].matchScore)
    /\ metadataResults[1].asin = 1

(***************************************************************************)
(* Properties of the path sanitization                                     *)
(***************************************************************************)
\* C27: sanitizing a sanitized path returns the same path, also for paths
\* longer than 240 characters and paths whose directory part alone is close
\* to or above 240 characters.
C27_SanitizeIdempotent ==
    opc = "twice" => sanitizedAgain = sanitized

\* The directory and the extension leave room for at least one character of
\* the base name.
RoomForBaseName ==
    Len(dirname(replaced(filePath))) + Len(extname(replaced(filePath))) + 1 < MAX_PATH_LENGTH

\* C27, for paths whose directory and extension leave room for the base
\* name: sanitizing a sanitized path returns the same path.
C27_IdempotentWithRoom ==
    (opc = "twice" /\ RoomForBaseName) => sanitizedAgain = sanitized

\* C28: the sanitized path has at most 240 characters, and when it was
\* truncated its directory part and its extension are those of the
\* untruncated sanitized path.
C28_AtMostMaxLength ==
    opc # "idle" =>
        /\ Len(sanitized) <= MAX_PATH_LENGTH
        /\ tooLong(replaced(filePath)) =>
              /\ dirname(sanitized) = dirname(replaced(filePath))
              /\ extname(sanitized) = extname(replaced(filePath))

\* C28, for paths whose directory and extension leave room for the base
\* name: at most 240 characters, the extension kept, and the directory kept
\* up to its normalization by path.join.
C28_AtMostMaxLengthWithRoom ==
    (opc # "idle" /\ RoomForBaseName) =>
        /\ Len(sanitized) <= MAX_PATH_LENGTH
        /\ tooLong(replaced(filePath)) =>
              /\ dirname(sanitized) = normalize(dirname(replaced(filePath)))
              /\ extname(sanitized) = extname(replaced(filePath))

(***************************************************************************)
(* Properties of unsubscribe and of handlers that call the dispatcher      *)
(***************************************************************************)
\* unsubscribe(id) has returned true: the subscription was made and its id is
\* no longer in the subscriptions map (only unsubscribe takes ids out of it).
Unsubscribed(id) == id \in 1..subscriptionCounter /\ ~(id \in DOMAIN subscriptions)

\* C29: after unsubscribe(id) has returned true the handler of subscription
\* id is never invoked again, also not by a replay that was pending when
\* unsubscribe was called; a second unsubscribe(id) returns false and changes
\* nothing.
C29_NeverInvokedAfterUnsubscribe ==
    [][\A id \in SubIds :
         Unsubscribed(id) =>
            /\ InvocationsOf(id)' = InvocationsOf(id)
            /\ Unsubscribe(id) =>
                  /\ unsubReturn' = FALSE
                  /\ UNCHANGED <<handlers, subscriptions, timers, invoked>>]_vars

\* C29, its second part: unsubscribe of an id that is no longer subscribed
\* returns false and changes nothing.
C29_SecondUnsubscribeFalse ==
    [][\A id \in SubIds :
         (Unsubscribed(id) /\ Unsubscribe(id)) =>
            /\ unsubReturn' = FALSE
            /\ UNCHANGED <<handlers, subscriptions, timers, invoked>>]_vars

\* C29, for subscriptions without a pending replay: no invocation after
\* unsubscribe has returned true.
C29_NoInvocationWithoutPendingReplay ==
    [][\A id \in SubIds :
         (Unsubscribed(id) /\ PendingReplays(id) = 0) =>
            InvocationsOf(id)' = InvocationsOf(id)]_vars

\* How often an emit step invoked the handler of subscription id.
NewInvocationsOf(id) ==
    Cardinality({i \in 1..Len(newInvocations) : newInvocations[i].id = id})

\* No handler registered for the event calls unsubscribe(id): subscription id
\* is still registered when its turn comes.
NotUnsubscribedByHandler(n, id) ==
    \A j \in 1..Len(handlers[n]) :
        handlers[n][j].beh = "unsubscribes" => handlers[n][j].target # id

\* C30: during one emit(name, data) every handler registered for name when
\* the emission starts is invoked at most once, and exactly once when it is
\* still registered at its turn, also when handlers call unsubscribe or
\* subscribe during the emission; emit returns the number of handlers it
\* invoked.
C30_ReentrantEmit ==
    [][\A n \in EventNames, data \in Payloads :
         Emit(n, data) =>
            /\ \A i \in 1..Len(handlers[n]) :
                  /\ NewInvocationsOf(handlers[n][i].id) <= 1
                  /\ NotUnsubscribedByHandler(n, handlers[n][i].id)
                        => NewInvocationsOf(handlers[n][i].id) = 1
            /\ emitReturn' = Len(newInvocations)]_vars

\* C30, for emissions none of whose handlers calls unsubscribe: every handler
\* registered at the start is invoked exactly once, a handler subscribed
\* during the emission is not invoked, and emit returns the number invoked.
C30_SubscribeDuringEmit ==
    [][\A n \in EventNames, data \in Payloads :
         (Emit(n, data) /\ \A j \in 1..Len(handlers[n]) : handlers[n][j].beh # "unsubscribes") =>
            /\ \A i \in 1..Len(handlers[n]) : NewInvocationsOf(handlers[n][i].id) = 1
            /\ emitReturn' = Len(newInvocations)
            /\ Len(newInvocations) = Len(handlers[n])]_vars

====
